---- MODULE Spec2Model ----
(***************************************************************************)
(* A model of tools/scylla-sstable.cc: the reader driver                   *)
(* (load_sstables, sstable_consumer_operation, consume_sstables,           *)
(* consume_reader, consumer_wrapper), the structured (JSON) dumper and the *)
(* JSON mutation stream parser.                                            *)
(***************************************************************************)
EXTENDS Integers, Sequences, FiniteSets, TLC

(***************************************************************************)
(* Bounds of the model.                                                    *)
(***************************************************************************)
\* number of sstable paths given on the command line: 1..MaxSstables
MaxSstables == 2
\* partition keys of a reader's stream: 1..MaxKey
MaxKey == 2
\* clustering elements in one partition of a reader's stream: 0..MaxElems
MaxElems == 1
\* items the parser pushes to its queue when it reads any lexer events
MaxPushed == 3
\* lexer events of the input when the parser reads any lexer events
MaxEvents == 17
\* the numbers of the Uint events when the parser reads any lexer events
MaxUint == 1
\* partitions and clustering elements per partition of a dumped stream
MaxRTPartitions == 1
MaxRTElems == 2
\* elements of an array or members of a row object of a document
MaxDocElems == 2
\* the consumer calls of one run of the dumper
MaxCalls == 10
\* the tokens of the partitions the validator is fed
MaxToken == 2
\* the positions of the clustering elements the validator is fed
MaxPos == 2
\* the fragments fed to the validator in a run
MaxFed == 4
\* the chunks of an sstable's decompressed data stream
MaxChunks == 2
\* the timestamps a run of writetime-histogram finds: up to MaxTimestamp, and
\* how many fragments it consumes
MaxTimestamp == 5
MaxCollected == 3
\* the characters of the partitions file
MaxFileLen == 5
\* impl::impl(): _queue(1)
QueueSize == 1

VARIABLES
    \* ---- the reader driver ----
    names,          \* the sstable paths of the command line, in order
    merge,          \* --merge
    no_skips,       \* --no-skips
    native_skip,    \* the reader's next_partition() skips (or does nothing)
    partitions,     \* get_partitions(): the partition filter (empty: none)
    pending,        \* load_sstables: the loads still in flight
    sstables,       \* load_sstables: the vector the loads push_back into
    idx,            \* consume_sstables: position of the for loop in sstables
    cur_sst,        \* the sst argument of consume_reader (0: nullptr)
    content,        \* the whole fragment stream of the current reader
    rd,             \* the fragments the current reader has not yielded yet
    rd_eos,         \* the reader's _end_of_stream flag
    skip_partition, \* consume_reader's local
    trace,          \* consumer calls made for the current sstable
    top,            \* stream level consumer calls of the whole run
    pc,             \* where the driver is
    pfile_content,  \* the content of the partitions file, as characters
    pfile,          \* get_partitions: what fstream has not read yet
    pk_buf,         \* get_partitions: the part of a key read so far
    \* ---- the JSON mutation stream parser ----
    handler,        \* the members of the handler
    queue,          \* impl::_queue: the items pushed and not taken yet
    queue_ex,       \* impl::_queue was aborted with an error
    parse_result,   \* the reader thread: running, done, error (a callback
                    \* returned false), thrown (left by an exception) or
                    \* failed (the lexer found an error in the input)
    pushed,         \* the kinds of all items pushed to the queue so far
    parsed,         \* the items pushed so far, when a dump is parsed back
    mode,           \* the input: any lexer events (free), a dump (doc)
    doc,            \* the lexer events of the dump
    pos,            \* the number of the next lexer event of the input
    stream,         \* the fragment stream that was dumped
    received,       \* the items operator()() has taken, when a document is read
    impl_pc,        \* the parser object: alive, joining (~impl() waits for the
                    \* thread) or destroyed
    \* ---- the JSON dumper ----
    clustering_array_created, \* json_dumper::_clustering_array_created
    level_stack,    \* the containers json_writer has open, the innermost first
    balanced,       \* no container was closed that was not the innermost open
    calls,          \* the consumer calls made on the dumper so far
    opened,         \* how often "clustering_elements" was opened in the
                    \* partition being dumped
    \* ---- the operations that work on files ----
    vm,             \* the options of the command line that the operation reads
    given,          \* the sstables of the command line, loaded
    fs,             \* the files on disk: the content of each, or Absent
    fs_before,      \* the files on disk when the operation started
    opened_files,   \* the files the operation has opened so far
    op_pc,          \* where the operation is
    op_error,       \* the exception that ended the operation ("": none)
    validator,      \* the stream validator's state
    errors,         \* the errors reported so far, for each validation level
    fed,            \* the number of fragments handed to the validator
    readers,        \* the combined reader: what each of its readers has left
    combined,       \* the combined reader: the fragments it has yielded
    ostream,        \* the output stream the operation has open (<<>>: none)
    histogram       \* writetime_histogram_collecting_consumer::_histogram

\* get_partitions reading the partitions file
gvars == <<pfile_content, pfile, pk_buf>>

dvars == <<gvars, names, merge, no_skips, native_skip, partitions, pending, sstables, idx, cur_sst,
           content, rd, rd_eos, skip_partition, trace, top, pc>>

pvars == <<handler, queue, queue_ex, parse_result, pushed, parsed, mode, doc, pos, stream,
           received, impl_pc>>

jvars == <<clustering_array_created, level_stack, balanced, calls, opened>>

\* the combined reader, the output stream and the histogram
xvars == <<readers, combined, ostream, histogram>>

\* the validator
vvars == <<validator, errors, fed>>

ovars == <<vm, given, fs, fs_before, opened_files, op_pc, op_error, vvars, xvars>>

vars == <<dvars, pvars, jvars, ovars>>

(***************************************************************************)
(* Fragments of a reader's stream (mutation_fragment_v2), reduced to what  *)
(* the driver looks at: the kind, and the partition key of a               *)
(* partition_start (the position, for a clustering element).               *)
(***************************************************************************)
PS(k) == [kind |-> "partition_start", key |-> k]
SR == [kind |-> "static_row", key |-> 0]
PE == [kind |-> "partition_end", key |-> 0]
Elem(kd, i) == [kind |-> kd, key |-> i]

ElemKinds == {"clustering_row", "range_tombstone_change"}
MidKinds == {"partition_start", "static_row"} \cup ElemKinds

\* stop_iteration::no / stop_iteration::yes
Ans == {"continue", "stop"}

\* The bodies of a partition: static_row? clustering_element*
ElemSeqs == UNION {[1..n -> ElemKinds] : n \in 0..MaxElems}
Bodies == [static : BOOLEAN, elems : ElemSeqs]
NoPartition == [static |-> FALSE, elems |-> <<"absent">>]

PartitionOf(k, b) ==
    <<PS(k)>> \o (IF b.static THEN <<SR>> ELSE <<>>)
              \o [i \in 1..Len(b.elems) |-> Elem(b.elems[i], i)] \o <<PE>>

RECURSIVE StreamFrom(_, _)
StreamFrom(f, k) ==
    IF k > MaxKey THEN <<>>
    ELSE (IF f[k] = NoPartition THEN <<>> ELSE PartitionOf(k, f[k]))
         \o StreamFrom(f, k + 1)

\* Well-formed streams: partitions strictly increasing by key, each
\* partition_start ... partition_end.
Streams == {StreamFrom(f, 1) : f \in [1..MaxKey -> Bodies \cup {NoPartition}]}

(***************************************************************************)
(* The reader (flat_mutation_reader_v2), as the driver uses it.            *)
(***************************************************************************)
\* rd.is_end_of_stream(): the flag is set and the buffer is empty
IsEndOfStream(r, eos) == r = <<>> /\ eos

RECURSIVE Drain(_)
\* while ((mfopt = rd().get()) && !mfopt->is_end_of_partition());
Drain(r) ==
    IF r = <<>> THEN <<>>
    ELSE IF Head(r).kind = "partition_end" THEN Tail(r)
    ELSE Drain(Tail(r))

RECURSIVE NextPartition(_)
\* rd.next_partition(): skip to the next partition_start; nothing is done
\* when the reader is positioned at a partition start
NextPartition(r) ==
    IF r = <<>> THEN <<>>
    ELSE IF Head(r).kind = "partition_start" THEN r
    ELSE NextPartition(Tail(r))

\* make_combined_reader: one stream, the ordered union of the inputs'
\* partitions; a partition present in several inputs is merged element-wise
HasFrag(s, k, fr) ==
    \E i \in 1..Len(s) :
        /\ s[i] = PS(k)
        /\ \E j \in i..Len(s) :
              /\ s[j] = fr
              /\ \A m \in (i + 1)..j : s[m].kind # "partition_start"

RECURSIVE CombineFrom(_, _)
CombineFrom(ss, k) ==
    IF k > MaxKey THEN <<>>
    ELSE LET has(fr) == \E n \in 1..Len(ss) : HasFrag(ss[n], k, fr)
             RECURSIVE elems(_)
             elems(i) ==
                IF i > MaxElems + 1 THEN <<>>
                ELSE (IF has(Elem("range_tombstone_change", i))
                      THEN <<Elem("range_tombstone_change", i)>> ELSE <<>>)
                     \o (IF has(Elem("clustering_row", i))
                         THEN <<Elem("clustering_row", i)>> ELSE <<>>)
                     \o elems(i + 1)
         IN  (IF has(PS(k))
              THEN <<PS(k)>> \o (IF has(SR) THEN <<SR>> ELSE <<>>)
                   \o elems(1) \o <<PE>>
              ELSE <<>>)
             \o CombineFrom(ss, k + 1)

Combine(ss) == CombineFrom(ss, 1)

(***************************************************************************)
(* consumer_wrapper::operator(): a partition_start the filter rejects is   *)
(* not handed to the consumer.                                             *)
(***************************************************************************)
\* (mutant: the result of the filter is taken the wrong way round)
FilterRejectsInverted(mf) ==
    mf.kind = "partition_start" /\ partitions # {} /\ mf.key \in partitions

FilterRejects(mf) ==
    mf.kind = "partition_start" /\ partitions # {} /\ mf.key \notin partitions

(***************************************************************************)
(* consume_reader, lines 838-845 and the loop condition of line 823: what  *)
(* follows once the partition is (or is not) to be skipped.                *)
(***************************************************************************)
\* rd.next_partition() of the reader in use
NativeSkip(r) == IF native_skip THEN NextPartition(r) ELSE r

\* lines 838-845 with the flag no_skips as ns
SkipRestAs(r, skip, ns) ==
    IF skip THEN (IF ns THEN Drain(r) ELSE NativeSkip(r)) ELSE r

SkipRest(r, skip) == SkipRestAs(r, skip, no_skips)

AfterSkip(r, eos, skip) ==
    LET r2 == SkipRest(r, skip)
    IN  [pc |-> IF IsEndOfStream(r2, eos) THEN "end_sstable" ELSE "pausable",
         rd |-> r2, rd_eos |-> eos, skip |-> FALSE]

\* consume_reader, lines 826-837: consume_pausable has returned
PeekBreaks(r) == r # <<>> /\ Head(r).kind # "partition_start"

AfterPause(r, eos, skip) ==
    IF ~IsEndOfStream(r, eos) /\ ~skip
    THEN IF PeekBreaks(r)
         THEN [pc |-> "end_sstable", rd |-> r, rd_eos |-> eos, skip |-> skip]
         ELSE [pc |-> "synthetic_pe", rd |-> r, rd_eos |-> (eos \/ r = <<>>),
               skip |-> skip]
    ELSE AfterSkip(r, eos, skip)

Call(op, kd, k, a, syn) ==
    [op |-> op, kind |-> kd, key |-> k, ans |-> a, syn |-> syn]

(***************************************************************************)
(* Init: the command line.                                                 *)
(***************************************************************************)
DriverStart ==
    /\ \E n \in 1..MaxSstables : names = [i \in 1..n |-> i]
    /\ merge \in BOOLEAN
    /\ no_skips \in BOOLEAN
    /\ partitions \in SUBSET (1..MaxKey)
    /\ pending = {i : i \in 1..Len(names)}
    /\ sstables = <<>>
    /\ idx = 1
    /\ cur_sst = 0
    /\ content = <<>>
    /\ rd = <<>>
    /\ rd_eos = FALSE
    /\ skip_partition = FALSE
    /\ trace = <<>>
    /\ top = <<>>
    /\ pc = "load"
    /\ pfile_content = <<>> /\ pfile = <<>> /\ pk_buf = <<>>

\* the readers of the sstables: next_partition() skips to the next partition
DriverInit == DriverStart /\ native_skip = TRUE

\* load_sstables: the loads run concurrently (parallel_for_each); each pushes
\* its sstable when its own load() completes
LoadSstable(i) ==
    /\ pc = "load"
    /\ i \in pending
    /\ pending' = pending \ {i}
    /\ sstables' = Append(sstables, i)
    /\ pc' = IF pending' = {} THEN "start" ELSE "load"
    /\ UNCHANGED <<pvars, jvars, ovars, gvars, names, merge, no_skips, native_skip,
                   partitions, idx, cur_sst, content, rd, rd_eos,
                   skip_partition, trace, top>>

\* sstable_consumer_operation, line 2439
OnStartOfStream ==
    /\ pc = "start"
    /\ top' = Append(top, Call("on_start_of_stream", "", 0, "continue", FALSE))
    /\ pc' = "next_sstable"
    /\ UNCHANGED <<pvars, jvars, ovars, gvars, names, merge, no_skips, native_skip,
                   partitions, pending, sstables, idx, cur_sst, content, rd,
                   rd_eos, skip_partition, trace>>

\* (mutant: the answer of on_new_sstable is ignored)
AfterNewSstableIgnoresStop(a) == "pausable"

\* (mutant: a stop of on_new_sstable leaves consume_reader without
\* on_end_of_sstable and ends the run)
AfterNewSstableStopEndsStream(a) == IF a = "stop" THEN "end_stream" ELSE "pausable"

\* consume_reader, lines 810-812: stop skips the content of the sstable
AfterNewSstable(a) == IF a = "stop" THEN "end_sstable" ELSE "pausable"

\* consume_sstables makes the next reader; consume_reader, lines 809-812
OnNewSstable(a) ==
    /\ pc = "next_sstable"
    /\ idx <= Len(sstables)
    /\ \E ss \in [1..(IF merge THEN Len(sstables) ELSE 1) -> Streams] :
          content' = IF merge THEN Combine(ss) ELSE ss[1]
    /\ cur_sst' = IF merge THEN 0 ELSE sstables[idx]
    /\ rd' = content'
    /\ rd_eos' = FALSE
    /\ skip_partition' = FALSE
    /\ trace' = <<Call("on_new_sstable", "", cur_sst', a, FALSE)>>
    /\ top' = Append(top, Call("on_new_sstable", "", cur_sst', a, FALSE))
    /\ pc' = AfterNewSstable(a)
    /\ UNCHANGED <<pvars, jvars, ovars, gvars, names, merge, no_skips, native_skip,
                   partitions, pending, sstables, idx>>

\* consume_pausable hands the next fragment to consumer_wrapper, which hands
\* it to the consumer
Consume(a) ==
    /\ pc = "pausable"
    /\ rd # <<>>
    /\ ~FilterRejects(Head(rd))
    /\ trace' = Append(trace, Call("consume", Head(rd).kind, Head(rd).key, a, FALSE))
    /\ IF a = "continue"
       THEN /\ rd' = Tail(rd)
            /\ UNCHANGED <<rd_eos, skip_partition, pc>>
       ELSE \E e \in BOOLEAN :
              LET nx == AfterPause(Tail(rd), Tail(rd) = <<>> /\ e, skip_partition)
              IN  /\ rd' = nx.rd
                  /\ rd_eos' = nx.rd_eos
                  /\ skip_partition' = nx.skip
                  /\ pc' = nx.pc
    /\ UNCHANGED <<pvars, jvars, ovars, gvars, names, merge, no_skips, native_skip,
                   partitions, pending, sstables, idx, cur_sst, content, top>>

\* consumer_wrapper, lines 196-198, with the filter of lines 816-821: the
\* partition_start is dropped and consume_pausable pauses
FilterReject ==
    /\ pc = "pausable"
    /\ rd # <<>>
    /\ FilterRejects(Head(rd))
    /\ LET nx == AfterPause(Tail(rd), FALSE, TRUE)
       IN  /\ rd' = nx.rd
           /\ rd_eos' = nx.rd_eos
           /\ skip_partition' = nx.skip
           /\ pc' = nx.pc
    /\ UNCHANGED <<pvars, jvars, ovars, gvars, names, merge, no_skips, native_skip,
                   partitions, pending, sstables, idx, cur_sst, content,
                   trace, top>>

\* consume_pausable finds the buffer empty: fill_buffer() ends the stream
PausableEos ==
    /\ pc = "pausable"
    /\ rd = <<>>
    /\ rd_eos' = TRUE
    /\ pc' = "end_sstable"
    /\ UNCHANGED <<pvars, jvars, ovars, gvars, names, merge, no_skips, native_skip,
                   partitions, pending, sstables, idx, cur_sst, content, rd,
                   skip_partition, trace, top>>

\* consume_reader, lines 832-836
SyntheticPartitionEnd(a) ==
    /\ pc = "synthetic_pe"
    /\ trace' = Append(trace, Call("consume", "partition_end", 0, a, TRUE))
    /\ IF a = "stop"
       THEN /\ pc' = "end_sstable"
            /\ UNCHANGED <<rd, rd_eos, skip_partition>>
       ELSE LET nx == AfterSkip(rd, rd_eos, TRUE)
            IN  /\ rd' = nx.rd
                /\ rd_eos' = nx.rd_eos
                /\ skip_partition' = nx.skip
                /\ pc' = nx.pc
    /\ UNCHANGED <<pvars, jvars, ovars, gvars, names, merge, no_skips, native_skip,
                   partitions, pending, sstables, idx, cur_sst, content, top>>

\* (mutant: the for loop has no break)
AfterReaderIgnoresStop(a) ==
    IF merge \/ idx + 1 > Len(sstables) THEN "end_stream" ELSE "next_sstable"

\* (mutant: with --merge too, a reader is made for each sstable)
AfterReaderLoopsWhenMerging(a) ==
    IF a = "stop" \/ idx + 1 > Len(sstables) THEN "end_stream" ELSE "next_sstable"

\* consume_sstables, lines 865-876: what the for loop does with the value
\* consume_reader returns
AfterReader(a) ==
    IF merge \/ a = "stop" \/ idx + 1 > Len(sstables)
    THEN "end_stream" ELSE "next_sstable"

\* consume_reader, lines 811 and 847
OnEndOfSstable(a) ==
    /\ pc = "end_sstable"
    /\ trace' = Append(trace, Call("on_end_of_sstable", "", cur_sst, a, FALSE))
    /\ top' = Append(top, Call("on_end_of_sstable", "", cur_sst, a, FALSE))
    /\ pc' = AfterReader(a)
    /\ idx' = IF pc' = "next_sstable" THEN idx + 1 ELSE idx
    /\ UNCHANGED <<pvars, jvars, ovars,
                   gvars, names, merge, no_skips, native_skip, partitions, pending, sstables,
                   cur_sst, content, rd, rd_eos, skip_partition>>

\* sstable_consumer_operation, line 2443
OnEndOfStream ==
    /\ pc = "end_stream"
    /\ top' = Append(top, Call("on_end_of_stream", "", 0, "continue", FALSE))
    /\ pc' = "done"
    /\ UNCHANGED <<pvars, jvars, ovars, gvars, names, merge, no_skips, native_skip,
                   partitions, pending, sstables, idx, cur_sst, content, rd,
                   rd_eos, skip_partition, trace>>

(***************************************************************************)
(* Values shared by the JSON dumper and the JSON mutation stream parser.   *)
(* An optional is a sequence: <<>> (disengaged) or <<v>>.                  *)
(***************************************************************************)
None == <<>>
Some(v) == <<v>>
IsSome(o) == o # <<>>
Val(o) == o[1]

\* A JSON string is a format tag and a sequence of numbers: the hex digits
\* of a hex string, the seconds of a "%F %Tz" date, the number of a TTL and
\* whether it has the "s" suffix, the name of a clustering element type
\* (1: clustering-row, 2: range-tombstone-change), the id of a cell value.
Text(fmt, n) == [fmt |-> fmt, n |-> n]

\* to_hex(): two hex digits per byte
RECURSIVE ToHexDigits(_)
ToHexDigits(bytes) ==
    IF bytes = <<>> THEN <<>>
    ELSE <<Head(bytes) \div 16, Head(bytes) % 16>> \o ToHexDigits(Tail(bytes))

to_hex(bytes) == Text("hex", ToHexDigits(bytes))

RECURSIVE FromHexDigits(_)
FromHexDigits(ds) ==
    IF ds = <<>> THEN <<>>
    ELSE <<16 * ds[1] + ds[2]>> \o FromHexDigits(Tail(Tail(ds)))

\* from_hex(): throws on an odd number of digits or a character that is not
\* a hex digit
FromHexThrows(t) == t.fmt # "hex" \/ Len(t.n) % 2 # 0
from_hex(t) == FromHexDigits(t.n)

\* json_dumper::to_string(gc_clock::time_point): "%F %Tz" of the seconds
to_string(tp) == Text("date", <<tp>>)

\* timestamp_from_string(): milliseconds since the epoch; throws on a string
\* that is not a date
TimestampThrows(t) == t.fmt # "date"
timestamp_from_string(t) == t.n[1] * 1000

\* fmt::format("{}", gc_clock::duration): "<n>s"
TtlToString(ttl) == Text("ttl", <<ttl, 1>>)

\* data_type::to_string / from_string of the atomic column type
ValueToString(v) == Text("value", <<v>>)
FromStringThrows(t) == t.fmt # "value"
from_string(t) == t.n[1]

\* dht::decorate_key: the token is a function of the key
TokenOf(pk) == IF pk = <<>> THEN 0 ELSE pk[1] % 4

\* ::tombstone: <<>> (empty) or <<timestamp, deletion_time>>
NoTomb == <<>>
Tomb(ts, dt) == <<ts, dt>>
TombLess(a, b) ==
    IF a = <<>> THEN b # <<>>
    ELSE IF b = <<>> THEN FALSE
    ELSE a[1] < b[1] \/ (a[1] = b[1] /\ a[2] < b[2])
MaxTomb(a, b) == IF TombLess(a, b) THEN b ELSE a

\* row_tombstone: the regular tombstone and the shadowable one, which is
\* never below the regular one
RowTomb(reg, sh) == [regular |-> reg, shadowable |-> MaxTomb(reg, sh)]
NoRowTomb == RowTomb(NoTomb, NoTomb)
\* row_tombstone::apply(shadowable_tombstone, row_marker{})
ApplyShadowable(rt, t) == RowTomb(rt.regular, MaxTomb(rt.shadowable, t))
\* row_tombstone::tomb()
RowTombMax(rt) == MaxTomb(rt.regular, rt.shadowable)

\* row_marker: missing, live, expiring (live with ttl and expiry) or dead
Marker(kd, ts, ttl, expiry) == [kind |-> kd, ts |-> ts, ttl |-> ttl, expiry |-> expiry]
NoMarker == Marker("missing", 0, 0, 0)

\* atomic_cell: absent, live (with an optional ttl and expiry) or dead
Cell(st, ts, v, ttl, expiry, dt) ==
    [state |-> st, ts |-> ts, value |-> v, ttl |-> ttl, expiry |-> expiry, dt |-> dt]
NoCell == Cell("absent", 0, 0, None, None, 0)
LiveCell(ts, v) == Cell("live", ts, v, None, None, 0)
ExpiringCell(ts, v, expiry, ttl) == Cell("live", ts, v, Some(ttl), Some(expiry), 0)
DeadCell(ts, dt) == Cell("dead", ts, 0, None, None, dt)

\* The schema: the columns by name, their kind, whether they are atomic and
\* whether their type is the counter type. A column of the counter type is
\* atomic: the dumper writes it as an atomic cell.
Schema ==
    [pk |-> [kind |-> "partition_key", atomic |-> TRUE, counter |-> FALSE],
     ck |-> [kind |-> "clustering_key", atomic |-> TRUE, counter |-> FALSE],
     s |-> [kind |-> "static_column", atomic |-> TRUE, counter |-> FALSE],
     v |-> [kind |-> "regular_column", atomic |-> TRUE, counter |-> FALSE],
     c |-> [kind |-> "regular_column", atomic |-> FALSE, counter |-> FALSE],
     n |-> [kind |-> "regular_column", atomic |-> TRUE, counter |-> TRUE]]
ColumnNames == DOMAIN Schema
\* the columns a row can hold a cell of
RowColumns == {"s", "v", "n"}

\* row: the cell of each column
EmptyRow == [c \in RowColumns |-> NoCell]

\* compare_atomic_cell_for_merge: the later timestamp wins, then a dead cell
\* over a live one, then the larger value or deletion time
CellWins(new, old) ==
    IF old.state = "absent" THEN TRUE
    ELSE IF new.ts # old.ts THEN new.ts > old.ts
    ELSE IF new.state # old.state THEN new.state = "dead"
    ELSE IF new.state = "live" THEN new.value >= old.value
    ELSE new.dt >= old.dt
\* row::apply(const column_definition&, atomic_cell)
RowApply(r, col, cell) ==
    IF col \in RowColumns /\ CellWins(cell, r[col]) THEN [r EXCEPT ![col] = cell] ELSE r

(***************************************************************************)
(* mutation_fragment_v2 as the dumper and the parser see it, and the       *)
(* end-of-stream item of the parser's queue.                               *)
(***************************************************************************)
Frag(kd, pk, tomb, ck, w, rt, m, cells) ==
    [kind |-> kd, pkey |-> pk, token |-> TokenOf(pk), tomb |-> tomb, ckey |-> ck,
     weight |-> w, rtomb |-> rt, marker |-> m, cells |-> cells]
PartitionStart(pk, tomb) ==
    Frag("partition_start", pk, tomb, <<>>, 0, NoRowTomb, NoMarker, EmptyRow)
StaticRow(cells) ==
    Frag("static_row", <<>>, NoTomb, <<>>, 0, NoRowTomb, NoMarker, cells)
ClusteringRow(ck, rt, m, cells) ==
    Frag("clustering_row", <<>>, NoTomb, ck, 0, rt, m, cells)
RangeTombstoneChange(ck, w, tomb) ==
    Frag("range_tombstone_change", <<>>, tomb, ck, w, NoRowTomb, NoMarker, EmptyRow)
PartitionEnd ==
    Frag("partition_end", <<>>, NoTomb, <<>>, 0, NoRowTomb, NoMarker, EmptyRow)
\* mutation_fragment_v2_opt{}: the end of the stream
EndOfStream ==
    Frag("eos", <<>>, NoTomb, <<>>, 0, NoRowTomb, NoMarker, EmptyRow)

(***************************************************************************)
(* Events: what json_writer is asked to write, and what the rapidjson      *)
(* reader calls the handler with.                                          *)
(***************************************************************************)
Ev(type, k, i, b, s) == [type |-> type, k |-> k, i |-> i, b |-> b, s |-> s]
NoText == Text("none", <<>>)
EvStartObject == Ev("StartObject", "", 0, FALSE, NoText)
EvEndObject == Ev("EndObject", "", 0, FALSE, NoText)
EvStartArray == Ev("StartArray", "", 0, FALSE, NoText)
EvEndArray == Ev("EndArray", "", 0, FALSE, NoText)
EvKey(k) == Ev("Key", k, 0, FALSE, NoText)
EvString(s) == Ev("String", "", 0, FALSE, s)
EvBool(b) == Ev("Bool", "", 0, b, NoText)
EvNumber(type, i) == Ev(type, "", i, FALSE, NoText)
\* the text of a partition key's token or of a key's value
OtherText == Text("other", <<>>)

\* A number written by Writer::Int or Writer::Int64 is read back by the
\* reader as Int (negative) or Uint (not negative); the numbers of the model
\* are all within 32 bits, where Int64 and Uint64 are not called.
Lex(e) ==
    IF e.type \in {"Int", "Int64"}
    THEN EvNumber(IF e.i < 0 THEN "Int" ELSE "Uint", e.i)
    ELSE e
(***************************************************************************)
(* json_mutation_stream_parser::handler: the members, and every function   *)
(* as an operator from the handler to the handler it leaves and what it    *)
(* returned, pushed to the queue, aborted or threw.                        *)
(***************************************************************************)
\* handler::tombstone and handler::column
NewTombstone == [timestamp |-> None, deletion_time |-> None]
NewColumn(def) ==
    [def |-> def, is_live |-> None, timestamp |-> None, value |-> None,
     deletion_time |-> None]

NewHandler ==
    [state_stack |-> <<"start">>, key |-> "", partition_start_emited |-> FALSE,
     is_shadowable |-> FALSE, bool |-> None, integer |-> None, string |-> None,
     pkey |-> None, tombstone |-> None, ckey |-> None, bound_weight |-> None,
     row_marker |-> None, row_tombstone |-> None, row |-> None, column |-> None,
     ttl |-> None, expiry |-> None, retire_error |-> ""]

\* _state_stack[i]; the stack grows at the front
Top(h, i) ==
    IF i + 1 <= Len(h.state_stack) THEN h.state_stack[i + 1] ELSE "out_of_range"

Result(h, ok, out, err, thrown) ==
    [h |-> h, ok |-> ok, out |-> out, err |-> err, thrown |-> thrown]
Ok(h) == Result(h, TRUE, <<>>, FALSE, FALSE)
\* a function left by an exception that nothing catches
Throws(h) == Result(h, FALSE, <<>>, FALSE, TRUE)
\* _queue.abort(...); return false
error(h) == Result(h, FALSE, <<>>, TRUE, FALSE)
\* the errors of handle_retire_state about the stack itself: the message
\* given to error() is kept
error_in_retire(h, what) == error([h EXCEPT !.retire_error = what])
\* _queue.push_eventually(mf); return true
emit(h, mf) == Result(h, TRUE, <<mf>>, FALSE, FALSE)
unexpected(h) == error(h)
push(h, s) == Ok([h EXCEPT !.state_stack = <<s>> \o @])

parse_partition_key(h) ==
    IF FromHexThrows(Val(h.string)) THEN error(h)
    ELSE Ok([h EXCEPT !.pkey = Some(from_hex(Val(h.string)))])

parse_clustering_key(h) ==
    IF FromHexThrows(Val(h.string)) THEN error(h)
    ELSE Ok([h EXCEPT !.ckey = Some(from_hex(Val(h.string)))])

parse_bound_weight(h) ==
    IF Val(h.integer) \in {-1, 0, 1}
    THEN Ok([h EXCEPT !.bound_weight = Some(Val(h.integer))])
    ELSE error(h)

parse_deletion_time(h) ==
    IF TimestampThrows(Val(h.string)) THEN error(h)
    ELSE LET dt == timestamp_from_string(Val(h.string)) \div 1000 IN
         IF Top(h, 1) = "in_column"
         THEN Ok([h EXCEPT !.column = Some([Val(@) EXCEPT !.deletion_time = Some(dt)])])
         ELSE Ok([h EXCEPT !.tombstone = Some([Val(@) EXCEPT !.deletion_time = Some(dt)])])

\* The number at the start of the text, as "ss >> ttl" reads it: the leading
\* decimal digits; the read fails when there is none.
RECURSIVE DecimalPrefix(_, _)
DecimalPrefix(ds, acc) ==
    IF ds = <<>> \/ Head(ds) > 9 THEN acc
    ELSE DecimalPrefix(Tail(ds), 10 * acc + Head(ds))
IsEmptyText(t) == t.fmt = "hex" /\ t.n = <<>>
TtlReadFails(t) ==
    CASE t.fmt = "ttl" -> FALSE
      [] t.fmt = "hex" -> t.n = <<>> \/ t.n[1] > 9
      [] t.fmt = "date" -> FALSE
      [] OTHER -> TRUE
TtlRead(t) ==
    CASE t.fmt = "ttl" -> t.n[1]
      [] t.fmt = "hex" -> DecimalPrefix(t.n, 0)
      [] OTHER -> 1970

\* *std::prev(e) of an empty string is a read before the string: the byte
\* there is 's' (prev_is_s) or it is not. If it is, e moves before the
\* beginning and building the std::string of [begin, e) throws.
parse_ttl(h, prev_is_s) ==
    IF IsEmptyText(Val(h.string)) /\ prev_is_s THEN Throws(h)
    ELSE IF TtlReadFails(Val(h.string)) THEN error(h)
    ELSE Ok([h EXCEPT !.ttl = Some(TtlRead(Val(h.string)))])

parse_expiry(h) ==
    IF TimestampThrows(Val(h.string)) THEN error(h)
    ELSE Ok([h EXCEPT !.expiry = Some(timestamp_from_string(Val(h.string)) \div 1000)])

\* the handler it leaves, what error() returned if it was called, and the
\* std::optional<::tombstone> returned
get_tombstone(h) ==
    LET t == Val(h.tombstone) IN
    IF IsSome(t.timestamp) # IsSome(t.deletion_time)
    THEN [res |-> error(h), tomb |-> None]
    ELSE IF ~IsSome(t.timestamp)
    THEN [res |-> Ok([h EXCEPT !.tombstone = None]), tomb |-> Some(NoTomb)]
    ELSE [res |-> Ok([h EXCEPT !.tombstone = None]),
          tomb |-> Some(Tomb(Val(t.timestamp), Val(t.deletion_time)))]

finalize_partition_start(h, tomb) ==
    IF ~IsSome(h.pkey) THEN error(h)
    ELSE emit([h EXCEPT !.pkey = None, !.partition_start_emited = TRUE],
              PartitionStart(Val(h.pkey), tomb))

finalize_static_row(h) ==
    IF ~IsSome(h.row) THEN error(h)
    ELSE emit([h EXCEPT !.row = None], StaticRow(Val(h.row)))

\* same as finalize_range_tombstone_change(), without the test for
\* bound_weight::equal
finalize_range_tombstone_change_any_weight(h) ==
    IF ~IsSome(h.bound_weight) THEN error(h)
    ELSE IF ~IsSome(h.row_tombstone) THEN error(h)
    ELSE emit([h EXCEPT !.ckey = None, !.bound_weight = None, !.row_tombstone = None],
              RangeTombstoneChange(IF IsSome(h.ckey) THEN h.ckey ELSE Some(<<>>),
                                   Val(h.bound_weight), RowTombMax(Val(h.row_tombstone))))

finalize_range_tombstone_change(h) ==
    IF ~IsSome(h.bound_weight) THEN error(h)
    ELSE IF Val(h.bound_weight) = 0 THEN error(h)
    ELSE IF ~IsSome(h.row_tombstone) THEN error(h)
    ELSE emit([h EXCEPT !.ckey = None, !.bound_weight = None, !.row_tombstone = None],
              RangeTombstoneChange(IF IsSome(h.ckey) THEN h.ckey ELSE Some(<<>>),
                                   Val(h.bound_weight), RowTombMax(Val(h.row_tombstone))))

\* row_marker::apply of the expiring marker of the same timestamp: the
\* expiring one wins
finalize_row_marker(h) ==
    IF ~IsSome(h.row_marker) THEN error(h)
    ELSE IF IsSome(h.expiry) # IsSome(h.ttl) THEN error(h)
    ELSE IF ~IsSome(h.expiry) /\ ~IsSome(h.ttl) THEN Ok(h)
    ELSE Ok([h EXCEPT !.row_marker =
                 Some(Marker("expiring", Val(@).ts, Val(h.ttl), Val(h.expiry))),
               !.ttl = None, !.expiry = None])

\* from_string() of the counter type throws for every string
CounterFromStringThrows(def) == Schema[def].counter

parse_column_value(h) ==
    IF CounterFromStringThrows(Val(h.column).def) \/ FromStringThrows(Val(h.string))
    THEN error(h)
    ELSE Ok([h EXCEPT !.column = Some([Val(@) EXCEPT !.value = Some(from_string(Val(h.string)))])])

\* finalize_column() without the test for the data of a live cell
finalize_column_no_data_test(h) ==
    LET c == Val(h.column) IN
    IF ~IsSome(h.row) THEN error(h)
    ELSE IF ~IsSome(c.is_live) \/ ~IsSome(c.timestamp) THEN error(h)
    ELSE IF ~Val(c.is_live) /\ ~IsSome(c.deletion_time) THEN error(h)
    ELSE IF IsSome(h.expiry) # IsSome(h.ttl) THEN error(h)
    ELSE IF Val(c.is_live)
    THEN Ok([h EXCEPT !.row = Some(RowApply(Val(@), c.def,
                        LiveCell(Val(c.timestamp), IF IsSome(c.value) THEN Val(c.value) ELSE 0))),
                    !.expiry = None, !.ttl = None, !.column = None])
    ELSE Ok([h EXCEPT !.row = Some(RowApply(Val(@), c.def,
                        DeadCell(Val(c.timestamp), Val(c.deletion_time)))),
               !.column = None])

finalize_column(h) ==
    LET c == Val(h.column) IN
    IF ~IsSome(h.row) THEN error(h)
    ELSE IF ~IsSome(c.is_live) \/ ~IsSome(c.timestamp) THEN error(h)
    ELSE IF Val(c.is_live) /\ ~IsSome(c.value) THEN error(h)
    ELSE IF ~Val(c.is_live) /\ ~IsSome(c.deletion_time) THEN error(h)
    ELSE IF IsSome(h.expiry) # IsSome(h.ttl) THEN error(h)
    ELSE IF Val(c.is_live)
    THEN IF IsSome(h.ttl)
         THEN Ok([h EXCEPT !.row = Some(RowApply(Val(@), c.def,
                        ExpiringCell(Val(c.timestamp), Val(c.value), Val(h.expiry), Val(h.ttl)))),
                    !.expiry = None, !.ttl = None, !.column = None])
         ELSE Ok([h EXCEPT !.row = Some(RowApply(Val(@), c.def,
                        LiveCell(Val(c.timestamp), Val(c.value)))),
                    !.column = None])
    ELSE Ok([h EXCEPT !.row = Some(RowApply(Val(@), c.def,
                        DeadCell(Val(c.timestamp), Val(c.deletion_time)))),
               !.column = None])

\* the clustering key std::move(*_ckey) leaves behind: engaged and empty
MovedFromKey == Some(<<>>)

finalize_clustering_row(h) ==
    IF ~IsSome(h.ckey) THEN error(h)
    ELSE IF ~IsSome(h.row) THEN error(h)
    ELSE emit([h EXCEPT !.row = None, !.row_tombstone = None, !.row_marker = None,
                        !.ckey = MovedFromKey],
              ClusteringRow(h.ckey,
                            IF IsSome(h.row_tombstone) THEN Val(h.row_tombstone) ELSE NoRowTomb,
                            IF IsSome(h.row_marker) THEN Val(h.row_marker) ELSE NoMarker,
                            Val(h.row)))

finalize_partition(h) ==
    emit([h EXCEPT !.partition_start_emited = FALSE], PartitionEnd)

\* retire_state_result and what the retire action pushed, aborted or threw
Retired(r, pop_states, next_state) ==
    [r |-> r, pop_states |-> pop_states, next_state |-> next_state]

RetireInTombstone(h) ==
    LET is_shadowable == h.is_shadowable
        g == get_tombstone([h EXCEPT !.is_shadowable = FALSE])
        h1 == g.res.h
    IN  IF ~IsSome(g.tomb) THEN g.res
        ELSE IF Top(h1, 2) = "in_partition" THEN finalize_partition_start(h1, Val(g.tomb))
        ELSE IF Top(h1, 2) = "in_range_tombstone_change"
        THEN Ok([h1 EXCEPT !.row_tombstone = Some(RowTomb(Val(g.tomb), Val(g.tomb)))])
        ELSE IF Top(h1, 2) = "in_clustering_row"
        THEN IF is_shadowable
             THEN IF ~IsSome(h1.row_tombstone) THEN error(h1)
                  ELSE Ok([h1 EXCEPT !.row_tombstone = Some(ApplyShadowable(Val(@), Val(g.tomb)))])
             ELSE Ok([h1 EXCEPT !.row_tombstone = Some(RowTomb(Val(g.tomb), Val(g.tomb)))])
        ELSE error_in_retire(h1, "retiring in_tombstone state in invalid context")

RetireBeforeInteger(h) ==
    LET r == CASE Top(h, 1) = "in_tombstone" ->
                    Ok([h EXCEPT !.tombstone = Some([Val(@) EXCEPT !.timestamp = h.integer])])
               [] Top(h, 1) = "in_range_tombstone_change" -> parse_bound_weight(h)
               [] Top(h, 1) = "in_column" ->
                    Ok([h EXCEPT !.column = Some([Val(@) EXCEPT !.timestamp = h.integer])])
               [] Top(h, 1) = "in_marker" ->
                    Ok([h EXCEPT !.row_marker = Some(Marker("live", Val(h.integer), 0, 0))])
               [] OTHER -> Ok(h)
    IN  [r EXCEPT !.h.integer = None]

RetireBeforeString(h, prev_is_s) ==
    LET r == CASE Top(h, 1) = "in_key" ->
                    IF Top(h, 3) = "in_partition" THEN parse_partition_key(h)
                    ELSE IF Top(h, 3) \in {"in_clustering_row", "in_range_tombstone_change"}
                    THEN parse_clustering_key(h)
                    ELSE Ok(h)
               [] Top(h, 1) = "in_tombstone" -> parse_deletion_time(h)
               [] Top(h, 1) = "in_marker" ->
                    IF h.key = "ttl" THEN parse_ttl(h, prev_is_s) ELSE parse_expiry(h)
               [] Top(h, 1) = "in_clustering_element" ->
                    IF Val(h.string) \in {Text("type", <<1>>), Text("type", <<2>>)}
                    THEN Ok(h) ELSE error(h)
               [] Top(h, 1) = "in_column" ->
                    IF h.key = "ttl" THEN parse_ttl(h, prev_is_s)
                    ELSE IF h.key = "expiry" THEN parse_expiry(h)
                    ELSE IF h.key = "deletion_time" THEN parse_deletion_time(h)
                    ELSE parse_column_value(h)
               [] OTHER -> Ok(h)
    IN  IF r.thrown THEN r ELSE [r EXCEPT !.h.string = None]

\* the next_state of retiring before_string
ElementState(h) ==
    IF Top(h, 1) = "in_clustering_element"
    THEN IF Val(h.string) = Text("type", <<1>>) THEN Some("in_clustering_row")
         ELSE IF Val(h.string) = Text("type", <<2>>) THEN Some("in_range_tombstone_change")
         ELSE None
    ELSE None

handle_retire_state(h, prev_is_s) ==
    CASE Top(h, 0) = "before_partition" -> Retired(emit(h, EndOfStream), 1, None)
      [] Top(h, 0) = "in_partition" -> Retired(finalize_partition(h), 1, None)
      [] Top(h, 0) = "in_key" -> Retired(Ok(h), 2, None)
      [] Top(h, 0) = "in_tombstone" -> Retired(RetireInTombstone(h), 2, None)
      [] Top(h, 0) = "in_marker" -> Retired(finalize_row_marker(h), 2, None)
      [] Top(h, 0) = "in_column" -> Retired(finalize_column(h), 2, None)
      [] Top(h, 0) = "before_column_key" ->
            Retired(IF Top(h, 1) = "before_static_columns" THEN finalize_static_row(h) ELSE Ok(h),
                    2, None)
      [] Top(h, 0) = "before_clustering_element" -> Retired(Ok(h), 2, None)
      [] Top(h, 0) = "in_range_tombstone_change" ->
            Retired(finalize_range_tombstone_change(h), 2, None)
      [] Top(h, 0) = "in_clustering_row" -> Retired(finalize_clustering_row(h), 2, None)
      [] Top(h, 0) = "before_ignored_value" -> Retired(Ok(h), 1, None)
      [] Top(h, 0) = "before_bool" ->
            Retired(Ok([h EXCEPT !.column = IF Top(h, 1) = "in_column"
                                             THEN Some([Val(@) EXCEPT !.is_live = h.bool])
                                             ELSE @,
                                 !.bool = None]), 1, None)
      [] Top(h, 0) = "before_integer" -> Retired(RetireBeforeInteger(h), 1, None)
      [] Top(h, 0) = "before_string" ->
            Retired(RetireBeforeString(h, prev_is_s), 1, ElementState(h))
      [] OTHER -> Retired(error_in_retire(h, "attempted to retire unexpected state"), 1, None)

\* pop() that pushes the next state without popping the retired one
pop_keeps_retired_state(h, prev_is_s) ==
    LET res == handle_retire_state(h, prev_is_s)
        n == IF res.next_state = None THEN res.pop_states ELSE 0
        popped == SubSeq(res.r.h.state_stack, n + 1, Len(res.r.h.state_stack))
    IN  IF ~res.r.ok THEN res.r
        ELSE [res.r EXCEPT !.h.state_stack = res.next_state \o popped]

pop(h, prev_is_s) ==
    LET res == handle_retire_state(h, prev_is_s)
        popped == SubSeq(res.r.h.state_stack, res.pop_states + 1, Len(res.r.h.state_stack))
    IN  IF ~res.r.ok THEN res.r
        ELSE [res.r EXCEPT !.h.state_stack = res.next_state \o popped]

(***************************************************************************)
(* The callbacks of the handler.                                           *)
(***************************************************************************)
handler_Null(h) ==
    IF Top(h, 0) = "before_ignored_value" THEN pop(h, FALSE) ELSE unexpected(h)

handler_Bool(h, b) ==
    IF Top(h, 0) = "before_bool" THEN pop([h EXCEPT !.bool = Some(b)], FALSE)
    ELSE unexpected(h)

\* Int, Uint, Int64 and Uint64 have the same body
handler_Int(h, i) ==
    CASE Top(h, 0) = "before_ignored_value" -> pop(h, FALSE)
      [] Top(h, 0) = "before_integer" -> pop([h EXCEPT !.integer = Some(i)], FALSE)
      [] OTHER -> unexpected(h)
handler_Uint(h, i) ==
    CASE Top(h, 0) = "before_ignored_value" -> pop(h, FALSE)
      [] Top(h, 0) = "before_integer" -> pop([h EXCEPT !.integer = Some(i)], FALSE)
      [] OTHER -> unexpected(h)
handler_Int64(h, i) ==
    CASE Top(h, 0) = "before_ignored_value" -> pop(h, FALSE)
      [] Top(h, 0) = "before_integer" -> pop([h EXCEPT !.integer = Some(i)], FALSE)
      [] OTHER -> unexpected(h)
handler_Uint64(h, i) ==
    CASE Top(h, 0) = "before_ignored_value" -> pop(h, FALSE)
      [] Top(h, 0) = "before_integer" -> pop([h EXCEPT !.integer = Some(i)], FALSE)
      [] OTHER -> unexpected(h)

handler_Double(h) ==
    IF Top(h, 0) = "before_ignored_value" THEN pop(h, FALSE) ELSE unexpected(h)

handler_RawNumber(h) == unexpected(h)

handler_String(h, s, prev_is_s) ==
    CASE Top(h, 0) = "before_ignored_value" -> pop(h, FALSE)
      [] Top(h, 0) = "before_string" -> pop([h EXCEPT !.string = Some(s)], prev_is_s)
      [] OTHER -> unexpected(h)

handler_StartObject(h) ==
    CASE Top(h, 0) = "before_partition" -> push(h, "in_partition")
      [] Top(h, 0) = "before_key" -> push(h, "in_key")
      [] Top(h, 0) = "before_tombstone" ->
            push([h EXCEPT !.tombstone = Some(NewTombstone)], "in_tombstone")
      [] Top(h, 0) = "before_static_columns" ->
            push([h EXCEPT !.row = Some(EmptyRow)], "before_column_key")
      [] Top(h, 0) = "before_clustering_element" ->
            push([h EXCEPT !.row = Some(EmptyRow)], "in_clustering_element")
      [] Top(h, 0) = "before_marker" -> push(h, "in_marker")
      [] Top(h, 0) = "before_clustering_columns" -> push(h, "before_column_key")
      [] Top(h, 0) = "before_column" -> push(h, "in_column")
      [] OTHER -> unexpected(h)

\* Key() in state in_partition, for "static_row" and "clustering_elements"
KeyStartsRows(h) ==
    LET r == IF ~h.partition_start_emited THEN finalize_partition_start(h, NoTomb) ELSE Ok(h)
        p == push(r.h, IF h.key = "static_row" THEN "before_static_columns"
                       ELSE "before_clustering_elements")
    IN  IF ~r.ok THEN r ELSE [p EXCEPT !.out = r.out]

\* Key() in state before_column_key; a name the schema does not have gives
\* the null definition
KeyOfColumn(h) ==
    LET def == IF h.key \in ColumnNames THEN h.key ELSE ""
        h1 == [h EXCEPT !.column = Some(NewColumn(def))]
    IN  IF def = "" THEN error(h1)
        ELSE IF Top(h1, 1) = "before_static_columns" /\ Schema[def].kind # "static_column"
        THEN error(h1)
        ELSE IF Top(h1, 1) = "before_clustering_columns" /\ Schema[def].kind # "regular_column"
        THEN error(h1)
        ELSE IF ~Schema[def].atomic THEN error(h1)
        ELSE push(h1, "before_column")

handler_Key(h0, k) ==
    LET h == [h0 EXCEPT !.key = k] IN
    CASE Top(h, 0) = "in_partition" ->
            IF k = "key" THEN push(h, "before_key")
            ELSE IF k = "tombstone" THEN push(h, "before_tombstone")
            ELSE IF k \in {"static_row", "clustering_elements"} THEN KeyStartsRows(h)
            ELSE unexpected(h)
      [] Top(h, 0) = "in_key" ->
            IF k = "value" \/ (Top(h, 2) = "in_partition" /\ k = "token")
            THEN push(h, "before_ignored_value")
            ELSE IF k = "raw" THEN push(h, "before_string")
            ELSE unexpected(h)
      [] Top(h, 0) = "in_tombstone" ->
            IF k = "timestamp" THEN push(h, "before_integer")
            ELSE IF k = "deletion_time" THEN push(h, "before_string")
            ELSE unexpected(h)
      [] Top(h, 0) = "in_marker" ->
            IF k = "timestamp" THEN push(h, "before_integer")
            ELSE IF k \in {"ttl", "expiry"} THEN push(h, "before_string")
            ELSE unexpected(h)
      [] Top(h, 0) = "in_clustering_element" ->
            IF k = "type" THEN push(h, "before_string") ELSE unexpected(h)
      [] Top(h, 0) = "in_range_tombstone_change" ->
            IF k = "key" THEN push(h, "before_key")
            ELSE IF k = "weight" THEN push(h, "before_integer")
            ELSE IF k = "tombstone" THEN push(h, "before_tombstone")
            ELSE unexpected(h)
      [] Top(h, 0) = "in_clustering_row" ->
            IF k = "key" THEN push(h, "before_key")
            ELSE IF k = "marker" THEN push(h, "before_marker")
            ELSE IF k = "tombstone" THEN push(h, "before_tombstone")
            ELSE IF k = "shadowable_tombstone"
            THEN push([h EXCEPT !.is_shadowable = TRUE], "before_tombstone")
            ELSE IF k = "columns" THEN push(h, "before_clustering_columns")
            ELSE unexpected(h)
      [] Top(h, 0) = "before_column_key" -> KeyOfColumn(h)
      [] Top(h, 0) = "in_column" ->
            IF k = "is_live" THEN push(h, "before_bool")
            ELSE IF k = "timestamp" THEN push(h, "before_integer")
            ELSE IF k \in {"ttl", "expiry", "value", "deletion_time"}
            THEN push(h, "before_string")
            ELSE unexpected(h)
      [] OTHER -> unexpected(h)

\* the deepest entry top(i) that the callbacks and the retire action look at
\* in the state on top of the stack
DeepestLookup(h) ==
    CASE Top(h, 0) \in {"in_tombstone", "in_key"} -> 2
      [] Top(h, 0) \in {"before_column_key", "before_bool", "before_integer"} -> 1
      [] Top(h, 0) = "before_string" -> IF Top(h, 1) = "in_key" THEN 3 ELSE 1
      [] OTHER -> 0

\* EndObject() that retires whatever state is on top
handler_EndObject_in_any_state(h) == pop(h, FALSE)

handler_EndObject(h) ==
    IF Top(h, 0) \in {"in_partition", "in_key", "in_tombstone", "in_range_tombstone_change",
                      "in_clustering_row", "before_column_key", "in_marker", "in_column"}
    THEN pop(h, FALSE)
    ELSE unexpected(h)

handler_StartArray(h) ==
    CASE Top(h, 0) = "start" -> push(h, "before_partition")
      [] Top(h, 0) = "before_clustering_elements" -> push(h, "before_clustering_element")
      [] OTHER -> unexpected(h)

\* EndArray() that pushes nothing when it closes the array of partitions
handler_EndArray_without_eos(h) ==
    IF Top(h, 0) = "before_partition" THEN [pop(h, FALSE) EXCEPT !.out = <<>>]
    ELSE IF Top(h, 0) = "before_clustering_element" THEN pop(h, FALSE)
    ELSE unexpected(h)

handler_EndArray(h) ==
    IF Top(h, 0) \in {"before_clustering_element", "before_partition"}
    THEN pop(h, FALSE)
    ELSE unexpected(h)

(***************************************************************************)
(* dumping_consumer::json_dumper: what each function asks json_writer to   *)
(* write, as a sequence of events.                                         *)
(***************************************************************************)
\* write(gc_clock::duration ttl, gc_clock::time_point expiry)
write_ttl_expiry(ttl, expiry) ==
    <<EvKey("ttl"), EvString(TtlToString(ttl)),
      EvKey("expiry"), EvString(to_string(expiry))>>

write_key(key) ==
    <<EvStartObject, EvKey("raw"), EvString(to_hex(key)),
      EvKey("value"), EvString(OtherText), EvEndObject>>

\* json_writer::PartitionKey with a token
PartitionKey(pkey) ==
    <<EvStartObject, EvKey("token"), EvString(OtherText), EvKey("raw"),
      EvString(to_hex(pkey)), EvKey("value"), EvString(OtherText), EvEndObject>>

write_tombstone(t) ==
    <<EvStartObject>>
    \o (IF t # NoTomb
        THEN <<EvKey("timestamp"), EvNumber("Int64", t[1]),
               EvKey("deletion_time"), EvString(to_string(t[2]))>>
        ELSE <<>>)
    \o <<EvEndObject>>

write_row_marker(m) ==
    <<EvStartObject, EvKey("timestamp"), EvNumber("Int64", m.ts)>>
    \o (IF m.kind = "expiring" THEN write_ttl_expiry(m.ttl, m.expiry) ELSE <<>>)
    \o <<EvEndObject>>

\* write(const atomic_cell_view&, data_type) for a type that is no counter
write_atomic_cell(cell) ==
    <<EvStartObject, EvKey("is_live"), EvBool(cell.state = "live"),
      EvKey("timestamp"), EvNumber("Int64", cell.ts)>>
    \o (IF cell.state = "live" /\ IsSome(cell.ttl)
        THEN write_ttl_expiry(Val(cell.ttl), Val(cell.expiry)) ELSE <<>>)
    \o (IF cell.state = "live"
        THEN <<EvKey("value"), EvString(ValueToString(cell.value))>>
        ELSE <<EvKey("deletion_time"), EvString(to_string(cell.dt))>>)
    \o <<EvEndObject>>

\* the columns of a kind that are atomic and no counters, in the order of
\* their ids
ColumnsOfKind(kind) == IF kind = "static_column" THEN <<"s">> ELSE <<"v">>

RECURSIVE write_cells(_, _)
write_cells(r, cols) ==
    IF cols = <<>> THEN <<>>
    ELSE (IF r[Head(cols)].state = "absent" THEN <<>>
          ELSE <<EvKey(Head(cols))>> \o write_atomic_cell(r[Head(cols)]))
         \o write_cells(r, Tail(cols))

write_row(r, kind) ==
    <<EvStartObject>> \o write_cells(r, ColumnsOfKind(kind)) \o <<EvEndObject>>

write_clustering_row(cr) ==
    <<EvStartObject, EvKey("type"), EvString(Text("type", <<1>>)), EvKey("key")>>
    \o write_key(Val(cr.ckey))
    \o (IF RowTombMax(cr.rtomb) # NoTomb
        THEN <<EvKey("tombstone")>> \o write_tombstone(cr.rtomb.regular)
             \o <<EvKey("shadowable_tombstone")>> \o write_tombstone(cr.rtomb.shadowable)
        ELSE <<>>)
    \o (IF cr.marker.kind # "missing"
        THEN <<EvKey("marker")>> \o write_row_marker(cr.marker) ELSE <<>>)
    \o <<EvKey("columns")>> \o write_row(cr.cells, "regular_column")
    \o <<EvEndObject>>

write_range_tombstone_change(rtc) ==
    <<EvStartObject, EvKey("type"), EvString(Text("type", <<2>>))>>
    \o (IF IsSome(rtc.ckey) THEN <<EvKey("key")>> \o write_key(Val(rtc.ckey)) ELSE <<>>)
    \o <<EvKey("weight"), EvNumber("Int", rtc.weight), EvKey("tombstone")>>
    \o write_tombstone(rtc.tomb)
    \o <<EvEndObject>>

\* "clustering_elements": [ before every clustering element
StartClusteringArrayAlways(created) == <<EvKey("clustering_elements"), EvStartArray>>

\* "clustering_elements": [ before the first clustering element
StartClusteringArray(created) ==
    IF created THEN <<>> ELSE <<EvKey("clustering_elements"), EvStartArray>>

\* consume(): what is written for one fragment, and _clustering_array_created
\* after it
json_dumper_consume(mf, created) ==
    CASE mf.kind = "partition_start" ->
            [ev |-> <<EvStartObject, EvKey("key")>> \o PartitionKey(mf.pkey)
                    \o (IF mf.tomb # NoTomb
                        THEN <<EvKey("tombstone")>> \o write_tombstone(mf.tomb) ELSE <<>>),
             created |-> FALSE]
      [] mf.kind = "static_row" ->
            [ev |-> <<EvKey("static_row")>> \o write_row(mf.cells, "static_column"),
             created |-> created]
      [] mf.kind = "clustering_row" ->
            [ev |-> StartClusteringArray(created) \o write_clustering_row(mf),
             created |-> TRUE]
      [] mf.kind = "range_tombstone_change" ->
            [ev |-> StartClusteringArray(created) \o write_range_tombstone_change(mf),
             created |-> TRUE]
      [] OTHER ->
            [ev |-> (IF created THEN <<EvEndArray>> ELSE <<>>) \o <<EvEndObject>>,
             created |-> created]

RECURSIVE DumpFragments(_, _)
DumpFragments(frags, created) ==
    IF frags = <<>> THEN <<>>
    ELSE LET c == json_dumper_consume(Head(frags), created) IN
         c.ev \o DumpFragments(Tail(frags), c.created)

\* the dump of one sstable: on_new_sstable's array, the fragments,
\* on_end_of_sstable
Dump(frags) == <<EvStartArray>> \o DumpFragments(frags, FALSE) \o <<EvEndArray>>

\* the events the reader finds in the text of a dump
Read(events) == [i \in 1..Len(events) |-> Lex(events[i])]

(***************************************************************************)
(* json_mutation_stream_parser::impl: the reader thread calling the handler *)
(* and the queue between it and operator()().                              *)
(***************************************************************************)
\* the lexer events the reader may find when the input is any text; the
\* numbers of Int64 and Uint64 stand for numbers outside of 32 bits
FreeTexts ==
    {Text("hex", <<>>), Text("hex", <<0, 1>>), Text("date", <<1>>), Text("ttl", <<1, 1>>),
     Text("type", <<1>>), Text("type", <<2>>), Text("value", <<1>>), OtherText}
FreeKeys ==
    {"key", "tombstone", "static_row", "clustering_elements", "value", "token", "raw",
     "timestamp", "deletion_time", "ttl", "expiry", "type", "weight", "marker",
     "shadowable_tombstone", "columns", "is_live", "s", "v", "c", "unknown"}
FreeInput(type) ==
    CASE type = "String" -> {EvString(t) : t \in FreeTexts}
      [] type = "Key" -> {EvKey(k) : k \in FreeKeys}
      [] type = "Bool" -> {EvBool(b) : b \in BOOLEAN}
      [] type = "Int" -> {EvNumber(type, -1)}
      [] type = "Uint" -> {EvNumber(type, i) : i \in 0..MaxUint}
      [] type = "Int64" -> {EvNumber(type, -MaxUint - 2)}
      [] type = "Uint64" -> {EvNumber(type, MaxUint + 2)}
      [] OTHER -> {Ev(type, "", 0, FALSE, NoText)}

\* the events the reader can call the handler with now
Input(type) ==
    IF mode = "free" THEN (IF pos <= MaxEvents THEN FreeInput(type) ELSE {})
    ELSE IF mode \in {"doc", "text"} /\ pos <= Len(doc) /\ doc[pos].type = type
    THEN {doc[pos]}
    ELSE {}

\* a queue that takes an item whatever it holds
QueueHasRoomAlways == TRUE
\* _queue.push_eventually() goes on when the queue is not full
QueueHasRoom == Len(queue) < QueueSize

\* One callback of the handler: Parse() goes on if it returned true and the
\* top level value is not complete, a fragment is pushed when the queue has
\* room, error() aborts the queue
Step(res) ==
    /\ parse_result = "running"
    /\ res.out # <<>> => (QueueHasRoom /\ (mode = "free" => Len(pushed) < MaxPushed))
    /\ handler' = res.h
    /\ queue' = IF res.err THEN <<>> ELSE queue \o res.out
    /\ queue_ex' = (queue_ex \/ res.err)
    /\ parse_result' = IF res.thrown THEN "thrown"
                       ELSE IF ~res.ok THEN "error"
                       ELSE IF Top(res.h, 0) = "start" THEN "done"
                       ELSE "running"
    /\ pushed' = pushed \o [i \in 1..Len(res.out) |-> res.out[i].kind]
    /\ parsed' = IF mode # "free" THEN parsed \o res.out ELSE parsed
    /\ pos' = pos + 1
    /\ UNCHANGED <<dvars, jvars, ovars, mode, doc, stream, received, impl_pc>>

ReadNull == \E e \in Input("Null") : Step(handler_Null(handler))
ReadBool == \E e \in Input("Bool") : Step(handler_Bool(handler, e.b))
ReadInt == \E e \in Input("Int") : Step(handler_Int(handler, e.i))
ReadUint == \E e \in Input("Uint") : Step(handler_Uint(handler, e.i))
ReadInt64 == \E e \in Input("Int64") : Step(handler_Int64(handler, e.i))
ReadUint64 == \E e \in Input("Uint64") : Step(handler_Uint64(handler, e.i))
ReadDouble == \E e \in Input("Double") : Step(handler_Double(handler))
ReadRawNumber == \E e \in Input("RawNumber") : Step(handler_RawNumber(handler))
ReadString ==
    \E e \in Input("String"), prev_is_s \in BOOLEAN :
        Step(handler_String(handler, e.s, prev_is_s))
ReadStartObject == \E e \in Input("StartObject") : Step(handler_StartObject(handler))
ReadKey == \E e \in Input("Key") : Step(handler_Key(handler, e.k))
ReadEndObject == \E e \in Input("EndObject") : Step(handler_EndObject(handler))
ReadStartArray == \E e \in Input("StartArray") : Step(handler_StartArray(handler))
ReadEndArray == \E e \in Input("EndArray") : Step(handler_EndArray(handler))

\* impl::operator()(): _queue.pop_eventually() takes the item of the queue
QueuePop ==
    /\ impl_pc = "alive"
    /\ queue # <<>>
    /\ queue' = Tail(queue)
    /\ received' = IF mode # "free" THEN Append(received, Head(queue)) ELSE received
    /\ UNCHANGED <<dvars, jvars, ovars,
                   handler, queue_ex, parse_result, pushed, parsed, mode, doc, pos,
                   stream, impl_pc>>

(***************************************************************************)
(* The specifications.                                                     *)
(***************************************************************************)
DriverOff ==
    /\ names = <<>> /\ merge = FALSE /\ no_skips = FALSE /\ native_skip = TRUE
    /\ partitions = {}
    /\ pending = {} /\ sstables = <<>> /\ idx = 0 /\ cur_sst = 0
    /\ content = <<>> /\ rd = <<>> /\ rd_eos = FALSE /\ skip_partition = FALSE
    /\ trace = <<>> /\ top = <<>> /\ pc = "off"
    /\ pfile_content = <<>> /\ pfile = <<>> /\ pk_buf = <<>>

\* no dumper
DumperOff ==
    /\ clustering_array_created = FALSE /\ level_stack = <<>> /\ balanced = TRUE
    /\ calls = <<>> /\ opened = 0

\* no operation on files
Absent == "absent"
OpsOff ==
    /\ vm = <<>> /\ given = <<>> /\ fs = <<>> /\ fs_before = <<>>
    /\ opened_files = {} /\ op_pc = "off" /\ op_error = ""
    /\ validator = <<>> /\ errors = <<>> /\ fed = 0
    /\ readers = <<>> /\ combined = <<>> /\ ostream = <<>> /\ histogram = <<>>

\* impl::impl(): an empty queue, a new handler, the thread started
ParserInit(m, frags) ==
    /\ handler = NewHandler /\ queue = <<>> /\ queue_ex = FALSE
    /\ parse_result = (IF m = "off" THEN "off" ELSE "running")
    /\ pushed = <<>> /\ parsed = <<>> /\ received = <<>> /\ mode = m
    /\ impl_pc = (IF m = "off" THEN "off" ELSE "alive")
    /\ stream = frags
    /\ doc = (IF m = "doc" THEN Read(Dump(frags)) ELSE <<>>)
    /\ pos = 1

\* the sstable operations: the reader driver
Init == DriverInit /\ ParserInit("off", <<>>) /\ DumperOff /\ OpsOff

Next ==
    \/ \E i \in 1..MaxSstables : LoadSstable(i)
    \/ OnStartOfStream
    \/ \E a \in Ans : OnNewSstable(a)
    \/ \E a \in Ans : Consume(a)
    \/ FilterReject
    \/ PausableEos
    \/ \E a \in Ans : SyntheticPartitionEnd(a)
    \/ \E a \in Ans : OnEndOfSstable(a)
    \/ OnEndOfStream

Spec == Init /\ [][Next]_vars

\* the parser reading any sequence of lexer events
InitParser == DriverOff /\ DumperOff /\ OpsOff /\ ParserInit("free", <<>>)

NextParser ==
    \/ ReadNull
    \/ ReadBool
    \/ ReadInt
    \/ ReadUint
    \/ ReadInt64
    \/ ReadUint64
    \/ ReadDouble
    \/ ReadRawNumber
    \/ ReadString
    \/ ReadStartObject
    \/ ReadKey
    \/ ReadEndObject
    \/ ReadStartArray
    \/ ReadEndArray
    \/ QueuePop

\* The driver on readers whose next_partition() does nothing
InitNoopSkip ==
    DriverStart /\ native_skip = FALSE /\ ParserInit("off", <<>>) /\ DumperOff /\ OpsOff

SpecNoopSkip == InitNoopSkip /\ [][Next]_vars

SpecParser == InitParser /\ [][NextParser]_vars

\* The well-formed streams of one sstable that are dumped and parsed back:
\* at most MaxRTPartitions partitions, partition p with key <<p>>, each with
\* or without a partition tombstone and a static row, and with at most
\* MaxRTElems clustering elements, element i at clustering key <<i>>.
RTTombs == {NoTomb, Tomb(5, 3)}
RTCells == {NoCell, LiveCell(7, 1), ExpiringCell(7, 1, 9, 60), DeadCell(7, 4)}
RTRows(col) == {[EmptyRow EXCEPT ![col] = c] : c \in RTCells}
RTRowTombs ==
    {RowTomb(Tomb(5, 3), NoTomb), RowTomb(Tomb(5, 3), Tomb(6, 3)), RowTomb(NoTomb, Tomb(6, 3))}
RTMarkers == {Marker("live", 7, 0, 0), Marker("expiring", 7, 60, 9), Marker("dead", 7, 0, 9)}
RTElements(i) ==
    {ClusteringRow(Some(<<i>>), NoRowTomb, NoMarker, r) : r \in RTRows("v")}
    \cup {ClusteringRow(Some(<<i>>), rt, NoMarker, EmptyRow) : rt \in RTRowTombs}
    \cup {ClusteringRow(Some(<<i>>), NoRowTomb, m, EmptyRow) : m \in RTMarkers}
    \cup {RangeTombstoneChange(Some(<<i>>), w, t) : w \in {-1, 1}, t \in RTTombs}
RTElementSeqs ==
    UNION {{f \in [1..n -> UNION {RTElements(i) : i \in 1..n}] :
                \A i \in 1..n : f[i] \in RTElements(i)} : n \in 0..MaxRTElems}
RTStaticRows == {<<>>} \cup {<<StaticRow(EmptyRow)>>, <<StaticRow([EmptyRow EXCEPT !.s = LiveCell(7, 1)])>>}
RTPartitions(p) ==
    {<<PartitionStart(<<p>>, t)>> \o sr \o es \o <<PartitionEnd>> :
        t \in RTTombs, sr \in RTStaticRows, es \in RTElementSeqs}
RECURSIVE RTStreams(_, _)
RTStreams(p, n) ==
    IF n = 0 THEN {<<>>}
    ELSE {a \o b : a \in RTPartitions(p), b \in RTStreams(p + 1, n - 1)}
WellFormedStreams == UNION {RTStreams(1, n) : n \in 0..MaxRTPartitions}

\* the dump of a well-formed stream of one sstable, read by the parser
InitRT ==
    DriverOff /\ DumperOff /\ OpsOff /\ \E frags \in WellFormedStreams : ParserInit("doc", frags)

NextRT ==
    \/ ReadBool
    \/ ReadInt
    \/ ReadUint
    \/ ReadString
    \/ ReadStartObject
    \/ ReadKey
    \/ ReadEndObject
    \/ ReadStartArray
    \/ ReadEndArray
    \/ QueuePop

SpecRT == InitRT /\ [][NextRT]_vars

(***************************************************************************)
(* Documents in the format of the dump whose objects have any subset of    *)
(* their members: the lexer events of their text.                          *)
(***************************************************************************)
RECURSIVE Concat(_)
Concat(ss) == IF ss = <<>> THEN <<>> ELSE Head(ss) \o Concat(Tail(ss))
JsonObject(members) == <<EvStartObject>> \o Concat(members) \o <<EvEndObject>>
JsonArray(elements) == <<EvStartArray>> \o Concat(elements) \o <<EvEndArray>>
JsonString(t) == <<EvString(t)>>
JsonNumber(i) == <<Lex(EvNumber("Int64", i))>>
Member(k, value) == <<EvKey(k)>> \o value
\* the member k of an object when it has one: no member, or the one member
OptMember(k, value) == IF value = None THEN <<>> ELSE <<Member(k, Val(value))>>
\* any value or none
Optional(values) == {None} \cup {Some(v) : v \in values}

\* sequences of at most MaxDocElems elements, the last one of them from
\* last and those before it from leading
RECURSIVE LedBy(_, _, _)
LedBy(leading, last, n) ==
    IF n = 1 THEN {<<l>> : l \in last}
    ELSE {<<p>> \o s : p \in leading, s \in LedBy(leading, last, n - 1)}
UpToMaxLedBy(leading, last) == UNION {LedBy(leading, last, n) : n \in 1..MaxDocElems}

KeyObject(key) == JsonObject(<<Member("raw", JsonString(to_hex(key)))>>)
DocTombs ==
    {write_tombstone(NoTomb), write_tombstone(Tomb(5, 3)),
     JsonObject(<<Member("timestamp", JsonNumber(5))>>)}
\* one partition with a key and the given further members
PartitionDoc(members) ==
    JsonArray(<<JsonObject(<<Member("key", KeyObject(<<1>>))>> \o members)>>)
ClusteringElementsDoc(elements) ==
    PartitionDoc(<<Member("clustering_elements", JsonArray(elements))>>)

\* complete clustering elements
CompleteRow(key) ==
    JsonObject(<<Member("type", JsonString(Text("type", <<1>>))),
                 Member("key", KeyObject(key)),
                 Member("tombstone", write_tombstone(Tomb(5, 3))),
                 Member("columns", JsonObject(<<>>))>>)
CompleteRangeTombstoneChange(key) ==
    JsonObject(<<Member("type", JsonString(Text("type", <<2>>))),
                 Member("key", KeyObject(key)),
                 Member("weight", JsonNumber(-1)),
                 Member("tombstone", write_tombstone(Tomb(5, 3)))>>)
LeadingElements == {CompleteRow(<<1>>), CompleteRangeTombstoneChange(<<1>>)}

\* range-tombstone-change objects with any subset of key, weight, tombstone
RangeTombstoneChangeObjects ==
    {JsonObject(<<Member("type", JsonString(Text("type", <<2>>)))>>
                \o OptMember("key", k) \o OptMember("weight", w) \o OptMember("tombstone", t)) :
        k \in Optional({KeyObject(<<2>>)}),
        w \in Optional({JsonNumber(i) : i \in -1..2}),
        t \in Optional(DocTombs)}
RangeTombstoneChangeDocs ==
    {ClusteringElementsDoc(es) : es \in UpToMaxLedBy(LeadingElements, RangeTombstoneChangeObjects)}

\* cell objects with any subset of is_live, timestamp, ttl, expiry, value,
\* deletion_time
CellObjects ==
    {JsonObject(OptMember("is_live", l) \o OptMember("timestamp", ts)
                \o OptMember("ttl", ttl) \o OptMember("expiry", e)
                \o OptMember("value", v) \o OptMember("deletion_time", dt)) :
        l \in Optional({<<EvBool(b)>> : b \in BOOLEAN}),
        ts \in Optional({JsonNumber(5)}),
        ttl \in Optional({JsonString(TtlToString(1))}),
        e \in Optional({JsonString(to_string(7))}),
        v \in Optional({JsonString(ValueToString(1))}),
        dt \in Optional({JsonString(to_string(3))})}
\* a dead cell that has a ttl and an expiry
DeadCellWithTtl ==
    JsonObject(<<Member("is_live", <<EvBool(FALSE)>>), Member("timestamp", JsonNumber(5))>>
               \o <<write_ttl_expiry(1, 7)>>
               \o <<Member("deletion_time", JsonString(to_string(3)))>>)
LeadingCells ==
    {write_atomic_cell(LiveCell(4, 0)), write_atomic_cell(ExpiringCell(4, 0, 7, 1)),
     write_atomic_cell(DeadCell(4, 3)), DeadCellWithTtl}
\* the cells of the column col, one member each
CellMembers(col, cells) == [i \in 1..Len(cells) |-> Member(col, cells[i])]
CellDocs ==
    {PartitionDoc(<<Member("static_row", JsonObject(CellMembers("s", cells)))>>) :
        cells \in UpToMaxLedBy(LeadingCells, CellObjects)}

\* clustering rows whose marker object has any subset of timestamp, ttl,
\* expiry
MarkerObjects ==
    {JsonObject(OptMember("timestamp", ts) \o OptMember("ttl", ttl) \o OptMember("expiry", e)) :
        ts \in Optional({JsonNumber(5)}),
        ttl \in Optional({JsonString(TtlToString(1))}),
        e \in Optional({JsonString(to_string(7))})}
RowObject(key, marker, cells) ==
    JsonObject(<<Member("type", JsonString(Text("type", <<1>>))),
                 Member("key", KeyObject(key))>>
               \o OptMember("marker", marker)
               \o <<Member("columns", JsonObject(CellMembers("v", cells)))>>)
MarkerRows == {RowObject(<<2>>, Some(m), <<>>) : m \in MarkerObjects}
LeadingRows ==
    {RowObject(<<1>>, m, <<c>>) :
        m \in Optional({write_row_marker(Marker("live", 4, 0, 0)),
                        write_row_marker(Marker("expiring", 4, 1, 7))}),
        c \in LeadingCells}
MarkerDocs ==
    {ClusteringElementsDoc(es) : es \in UpToMaxLedBy(LeadingRows, MarkerRows)}

\* rows with a cell of a column of any name
DocColumnNames == ColumnNames \cup {"unknown"}
ColumnCells == {write_atomic_cell(LiveCell(4, 0)), write_atomic_cell(DeadCell(4, 3))}
ColumnDocs ==
    {PartitionDoc(<<Member("static_row", JsonObject(<<Member(col, cell)>>))>>) :
        col \in DocColumnNames, cell \in ColumnCells}
    \cup {ClusteringElementsDoc(<<RowObject(<<1>>, None, <<>>),
                                  JsonObject(
                 <<Member("type", JsonString(Text("type", <<1>>))),
                   Member("key", KeyObject(<<2>>)),
                   Member("columns", JsonObject(<<Member(col, cell)>>))>>)>>) :
        col \in DocColumnNames, cell \in ColumnCells}

\* documents whose top level is any kind of value: a scalar, an object, an
\* array of up to two partitions
PartitionObjects ==
    {JsonObject(<<Member("key", KeyObject(<<k>>)),
                  Member("tombstone", write_tombstone(Tomb(5, 3)))>>
                \o OptMember("static_row", r)) :
        k \in 1..2, r \in Optional({write_row([EmptyRow EXCEPT !.s = LiveCell(4, 0)],
                                               "static_column")})}
TopLevelDocs ==
    {JsonString(OtherText), JsonNumber(1), <<EvBool(TRUE)>>, JsonObject(<<>>),
     JsonObject(<<Member("key", KeyObject(<<1>>))>>), JsonArray(<<>>)}
    \cup {JsonArray(<<p>>) : p \in PartitionObjects}
    \cup {JsonArray(<<p, q>>) : p, q \in PartitionObjects}

\* one or two partition objects with any subset of key, tombstone and
\* static_row
MemberPartitionObjects ==
    {JsonObject(OptMember("key", k) \o OptMember("tombstone", t) \o OptMember("static_row", r)) :
        k \in Optional({KeyObject(<<1>>), KeyObject(<<2>>)}),
        t \in Optional({write_tombstone(Tomb(5, 3))}),
        r \in Optional({write_row([EmptyRow EXCEPT !.s = LiveCell(4, 0)], "static_column")})}
PartitionDocs ==
    {JsonArray(<<p>>) : p \in MemberPartitionObjects}
    \cup {JsonArray(<<p, q>>) : p, q \in MemberPartitionObjects}

\* clustering rows with or without the member key, after any clustering
\* element
KeyRows ==
    {JsonObject(<<Member("type", JsonString(Text("type", <<1>>)))>>
                \o OptMember("key", k)
                \o <<Member("columns", JsonObject(<<>>))>>) :
        k \in Optional({KeyObject(<<1>>), KeyObject(<<2>>)})}
KeyDocs ==
    {ClusteringElementsDoc(es) :
        es \in UpToMaxLedBy(KeyRows \cup {CompleteRangeTombstoneChange(<<1>>)}, KeyRows)}

\* the documents, as the reader finds them
Documents ==
    {Read(d) : d \in RangeTombstoneChangeDocs \cup CellDocs \cup MarkerDocs \cup ColumnDocs
                     \cup TopLevelDocs \cup KeyDocs \cup PartitionDocs}

\* impl::impl() for a document
ParserInitText(events) ==
    /\ handler = NewHandler /\ queue = <<>> /\ queue_ex = FALSE
    /\ parse_result = "running"
    /\ pushed = <<>> /\ parsed = <<>> /\ received = <<>> /\ mode = "text"
    /\ impl_pc = "alive"
    /\ stream = <<>> /\ doc = events /\ pos = 1

InitDoc == DriverOff /\ DumperOff /\ OpsOff /\ \E d \in Documents : ParserInitText(d)

NextDoc ==
    \/ ReadBool
    \/ ReadInt
    \/ ReadUint
    \/ ReadString
    \/ ReadStartObject
    \/ ReadKey
    \/ ReadEndObject
    \/ ReadStartArray
    \/ ReadEndArray
    \/ QueuePop

SpecDoc == InitDoc /\ [][NextDoc]_vars

(***************************************************************************)
(* The parser's thread, the reader of its queue and the parser's           *)
(* destructor, on inputs that may end or be malformed at any place.        *)
(***************************************************************************)
\* the inputs: what the lexer finds before the input ends or stops being
\* JSON, for every place where that may happen in a document (the empty
\* input and the whole document included)
TaskDocuments ==
    {Read(JsonArray(<<>>)),
     Read(ClusteringElementsDoc(<<CompleteRangeTombstoneChange(<<1>>)>>))}
    \cup {Read(JsonArray(<<p>>)) : p \in PartitionObjects}
TaskInputs == UNION {{SubSeq(d, 1, n) : n \in 0..Len(d)} : d \in TaskDocuments}

\* _thread([this] { _reader.Parse(_stream, _handler); }): the lexer finds an
\* error, Parse() returns it and the thread ends; what Parse() returned is
\* dropped
ParseFails ==
    /\ mode = "text" /\ parse_result = "running"
    /\ pos > Len(doc)
    /\ parse_result' = "failed"
    /\ UNCHANGED <<dvars, jvars, ovars,
                   handler, queue, queue_ex, pushed, parsed, mode, doc, pos, stream,
                   received, impl_pc>>

\* the thread is joined when its function has returned
ThreadEnded == parse_result # "running"

\* the owner stops calling operator()() and destroys the parser: ~impl()
\* starts to wait for the thread
ImplDestroy ==
    /\ impl_pc = "alive"
    /\ impl_pc' = "joining"
    /\ UNCHANGED <<dvars, jvars, ovars,
                   handler, queue, queue_ex, parse_result, pushed, parsed, mode, doc, pos,
                   stream, received>>

\* ~impl(): _thread.join().get() returns
ImplJoin ==
    /\ impl_pc = "joining"
    /\ ThreadEnded
    /\ impl_pc' = "destroyed"
    /\ UNCHANGED <<dvars, jvars, ovars,
                   handler, queue, queue_ex, parse_result, pushed, parsed, mode, doc, pos,
                   stream, received>>

\* a step of the thread
ThreadStep ==
    \/ ReadBool
    \/ ReadInt
    \/ ReadUint
    \/ ReadString
    \/ ReadStartObject
    \/ ReadKey
    \/ ReadEndObject
    \/ ReadStartArray
    \/ ReadEndArray
    \/ ParseFails

InitTask == DriverOff /\ DumperOff /\ OpsOff /\ \E d \in TaskInputs : ParserInitText(d)

NextTask ==
    \/ ThreadStep
    \/ QueuePop
    \/ ImplDestroy
    \/ ImplJoin

SpecTask == InitTask /\ [][NextTask]_vars

(***************************************************************************)
(* The object of a document that an EndObject event closes.                *)
(***************************************************************************)
\* the index of the event that opened the innermost container that is open
\* before the event j + 1, when depth closed containers are to be passed
RECURSIVE OpenOf(_, _, _)
OpenOf(d, j, depth) ==
    IF j < 1 THEN 0
    ELSE IF d[j].type \in {"EndObject", "EndArray"} THEN OpenOf(d, j - 1, depth + 1)
    ELSE IF d[j].type \in {"StartObject", "StartArray"}
    THEN (IF depth = 0 THEN j ELSE OpenOf(d, j - 1, depth - 1))
    ELSE OpenOf(d, j - 1, depth)
\* the member keys of the object that the event e of d closes: their indexes
OwnKeyIndexes(d, e) ==
    {i \in 1..(e - 1) : d[i].type = "Key" /\ OpenOf(d, i - 1, 0) = OpenOf(d, e - 1, 0)}
OwnKeys(d, e) == {d[i].k : i \in OwnKeyIndexes(d, e)}
\* the index of the last member k of that object
LastOwn(d, e, k) ==
    CHOOSE i \in OwnKeyIndexes(d, e) :
        d[i].k = k /\ \A j \in OwnKeyIndexes(d, e) : d[j].k = k => j <= i
\* the handler is called with the EndObject that closes an object read in
\* state st
Closing(st) ==
    /\ parse_result = "running" /\ mode = "text"
    /\ Top(handler, 0) = st
    /\ pos <= Len(doc) /\ doc[pos].type = "EndObject"
    /\ pos' = pos + 1
Rejected == parse_result' = "error" /\ queue_ex' /\ parsed' = parsed


(***************************************************************************)
(* dumping_consumer::json_dumper called by a caller that follows the       *)
(* grammar of the consumer calls:                                          *)
(*   on_start_of_stream (on_new_sstable partition* on_end_of_sstable)*     *)
(*   on_end_of_stream                                                      *)
(*   partition: partition_start static_row?                                *)
(*              (clustering_row | range_tombstone_change)* partition_end   *)
(***************************************************************************)
\* rapidjson::Writer: Start* opens a container, End* closes the innermost
\* one, which has to be of that kind
RECURSIVE WriterApply(_, _)
WriterApply(w, events) ==
    IF events = <<>> THEN w
    ELSE LET e == Head(events)
             kind == IF e.type \in {"StartObject", "EndObject"} THEN "object" ELSE "array"
         IN  IF e.type \in {"StartObject", "StartArray"}
             THEN WriterApply([w EXCEPT !.stack = <<kind>> \o @], Tail(events))
             ELSE IF e.type \in {"EndObject", "EndArray"}
             THEN IF w.stack # <<>> /\ Head(w.stack) = kind
                  THEN WriterApply([w EXCEPT !.stack = Tail(@)], Tail(events))
                  ELSE WriterApply([w EXCEPT !.ok = FALSE], Tail(events))
             ELSE WriterApply(w, Tail(events))

\* json_writer::StartStream, EndStream, SstableKey (0: no sstable)
StartStream == <<EvStartObject, EvKey("sstables"), EvStartObject>>
EndStream == <<EvEndObject, EvEndObject>>
SstableKey(sst) == <<EvKey(IF sst = 0 THEN "anonymous" ELSE "sstable")>>

LastCall == IF calls = <<>> THEN "none" ELSE calls[Len(calls)]
InPartition ==
    LastCall \in {"partition_start", "static_row", "clustering_row", "range_tombstone_change"}

\* one call of the dumper that writes events and leaves
\* _clustering_array_created as created
DumperCall(name, events, created) ==
    /\ Len(calls) < MaxCalls
    /\ calls' = Append(calls, name)
    /\ LET w == WriterApply([stack |-> level_stack, ok |-> balanced], events) IN
       /\ level_stack' = w.stack
       /\ balanced' = w.ok
    /\ clustering_array_created' = created
    /\ opened' = (IF name = "partition_start" THEN 0 ELSE opened)
                 + Cardinality({i \in 1..Len(events) : events[i] = EvKey("clustering_elements")})
    /\ UNCHANGED <<dvars, pvars, ovars>>

ConsumeFragment(mf) ==
    LET c == json_dumper_consume(mf, clustering_array_created) IN
    DumperCall(mf.kind, c.ev, c.created)

DumperOnStartOfStream ==
    /\ LastCall = "none"
    /\ DumperCall("on_start_of_stream", StartStream, clustering_array_created)
DumperOnNewSstable ==
    /\ LastCall \in {"on_start_of_stream", "on_end_of_sstable"}
    /\ \E sst \in 0..1 :
          DumperCall("on_new_sstable", SstableKey(sst) \o <<EvStartArray>>,
                     clustering_array_created)
DumperPartitionStart ==
    /\ LastCall \in {"on_new_sstable", "partition_end"}
    /\ \E t \in RTTombs : ConsumeFragment(PartitionStart(<<1>>, t))
DumperStaticRow ==
    /\ LastCall = "partition_start"
    /\ \E r \in RTRows("s") : ConsumeFragment(StaticRow(r))
DumperClusteringRow ==
    /\ InPartition
    /\ \E cr \in {e \in RTElements(1) : e.kind = "clustering_row"} : ConsumeFragment(cr)
DumperRangeTombstoneChange ==
    /\ InPartition
    /\ \E rtc \in {e \in RTElements(1) : e.kind = "range_tombstone_change"} :
          ConsumeFragment(rtc)
DumperPartitionEnd ==
    /\ InPartition
    /\ ConsumeFragment(PartitionEnd)
DumperOnEndOfSstable ==
    /\ LastCall \in {"on_new_sstable", "partition_end"}
    /\ DumperCall("on_end_of_sstable", <<EvEndArray>>, clustering_array_created)
DumperOnEndOfStream ==
    /\ LastCall \in {"on_start_of_stream", "on_end_of_sstable"}
    /\ DumperCall("on_end_of_stream", EndStream, clustering_array_created)

\* json_dumper's constructor leaves _clustering_array_created uninitialized
InitDump ==
    /\ DriverOff /\ ParserInit("off", <<>>) /\ OpsOff
    /\ clustering_array_created \in BOOLEAN
    /\ level_stack = <<>> /\ balanced = TRUE /\ calls = <<>> /\ opened = 0

NextDump ==
    \/ DumperOnStartOfStream
    \/ DumperOnNewSstable
    \/ DumperPartitionStart
    \/ DumperStaticRow
    \/ DumperClusteringRow
    \/ DumperRangeTombstoneChange
    \/ DumperPartitionEnd
    \/ DumperOnEndOfSstable
    \/ DumperOnEndOfStream

SpecDump == InitDump /\ [][NextDump]_vars

(***************************************************************************)
(* The stream validator (mutation_fragment_stream_validator) and its       *)
(* validation levels.                                                      *)
(***************************************************************************)
\* write_operation: the names of the levels, in the order of the listing
valid_validation_levels == <<"partition_region", "token", "partition_key", "clustering_key">>

LevelNames == {valid_validation_levels[i] : i \in 1..Len(valid_validation_levels)}

LevelIndex(name) ==
    CHOOSE i \in 1..Len(valid_validation_levels) : valid_validation_levels[i] = name

\* (mutant: a level contains the levels above it)
LevelLeqInverted(a, b) == LevelIndex(a) >= LevelIndex(b)

\* level a is one of the levels that level b contains
LevelLeq(a, b) == LevelIndex(a) <= LevelIndex(b)

\* The fragments the validator is fed: a partition_start with its token and
\* key, a clustering element with its position, a range tombstone change
\* with its bound weight (0: equal) and with whether its tombstone is set
VFrag(kd, t, k, p, w, tb) ==
    [kind |-> kd, token |-> t, key |-> k, pos |-> p, weight |-> w, tomb |-> tb]

ValidatedFragments ==
    {VFrag("partition_start", t, k, 0, 0, FALSE) : t \in 1..MaxToken, k \in 1..MaxKey}
    \cup {VFrag("static_row", 0, 0, 0, 0, FALSE), VFrag("partition_end", 0, 0, 0, 0, FALSE)}
    \cup {VFrag("clustering_row", 0, 0, p, 0, FALSE) : p \in 1..MaxPos}
    \cup {VFrag("range_tombstone_change", 0, 0, p, w, tb) :
             p \in 1..MaxPos, w \in {0, 1}, tb \in BOOLEAN}

StreamEnd == VFrag("end_of_stream", 0, 0, 0, 0, FALSE)

\* Initial: no partition seen yet
NewValidator ==
    [prev |-> "initial", token |-> 0, key |-> 0, last_clustering |-> 0,
     last_rtc_position |-> 0, open_tombstone |-> FALSE]

\* partition_region: the fragment kinds follow the partition grammar, and
\* the stream ends in a partition_end or is empty
RegionViolation(v, f) ==
    CASE f.kind = "partition_start" -> v.prev \notin {"initial", "partition_end"}
      [] f.kind = "static_row" -> v.prev # "partition_start"
      [] f.kind \in {"clustering_row", "range_tombstone_change", "partition_end"} ->
            v.prev \in {"initial", "partition_end"}
      [] OTHER -> v.prev \notin {"initial", "partition_end"}

\* token: token(new) >= token(last)
TokenViolation(v, f) ==
    f.kind = "partition_start" /\ v.prev # "initial" /\ f.token < v.token

\* partition_key: (token, key)(new) > (token, key)(last)
KeyViolation(v, f) ==
    /\ f.kind = "partition_start" /\ v.prev # "initial"
    /\ ~(f.token > v.token \/ (f.token = v.token /\ f.key > v.key))

\* (mutant: a partition_end is never checked for an open range tombstone)
UnclosedTombstoneNever(v, f) == FALSE

\* clustering_key: an unclosed range tombstone at partition_end
UnclosedTombstone(v, f) == f.kind = "partition_end" /\ v.open_tombstone

\* clustering_key: rows strictly increasing by position, range tombstone
\* change positions non-decreasing and never of equal weight, no range
\* tombstone left open at partition_end
ClusteringViolation(v, f) ==
    \/ f.kind = "clustering_row" /\ f.pos <= v.last_clustering
    \/ f.kind = "range_tombstone_change"
          /\ (f.pos < v.last_rtc_position \/ f.weight = 0)
    \/ UnclosedTombstone(v, f)

\* the levels whose check the fragment fails
Violations(v, f) ==
    {l \in LevelNames :
        CASE l = "partition_region" -> RegionViolation(v, f)
          [] l = "token" -> TokenViolation(v, f)
          [] l = "partition_key" -> KeyViolation(v, f)
          [] OTHER -> ClusteringViolation(v, f)}

\* Checks, each active iff its level is contained in the configured one
Reported(level, v, f) == {l \in Violations(v, f) : LevelLeq(l, level)}

\* the validator's state after the fragment
ValidatorUpdate(v, f) ==
    CASE f.kind = "partition_start" ->
            [prev |-> "partition_start", token |-> f.token, key |-> f.key,
             last_clustering |-> 0, last_rtc_position |-> 0, open_tombstone |-> FALSE]
      [] f.kind = "static_row" -> [v EXCEPT !.prev = "static_row"]
      [] f.kind = "clustering_row" ->
            [v EXCEPT !.prev = "clustered", !.last_clustering = f.pos]
      [] f.kind = "range_tombstone_change" ->
            [v EXCEPT !.prev = "clustered", !.last_rtc_position = f.pos,
                      !.open_tombstone = f.tomb]
      [] f.kind = "partition_end" ->
            [v EXCEPT !.prev = "partition_end", !.open_tombstone = FALSE]
      [] OTHER -> v

\* the errors each level's validator has counted, by the level of the check
\* that failed, with those of fragment f added
Diagnose(errs, v, f) ==
    [l \in LevelNames |->
        [c \in LevelNames |-> errs[l][c] + (IF c \in Reported(l, v, f) THEN 1 ELSE 0)]]

NoErrors == [l \in LevelNames |-> [c \in LevelNames |-> 0]]

\* the number of errors the validator of a level has counted
ErrorCount(errs, l) ==
    errs[l]["partition_region"] + errs[l]["token"] + errs[l]["partition_key"]
        + errs[l]["clustering_key"]
(***************************************************************************)
(* write_operation, with the sstable writer behind write_components().     *)
(***************************************************************************)
\* the components of the output sstable
ComponentTypes == {"TOC", "Data", "Index"}

\* sstable::filename(): the file of a component, for the output directory,
\* version, generation and format of the run
Filename(component) == component

InputFile == "input-file"

Files == {InputFile} \cup {Filename(c) : c \in ComponentTypes}

\* the operation ends with an exception
OpThrow(what) == op_pc' = "failed" /\ op_error' = what

\* lines 2384-2386
WriteCheckSstables ==
    /\ op_pc = "write"
    /\ IF given # <<>>
       THEN OpThrow("error: write operation does not operate on input sstables")
       ELSE op_pc' = "input-file" /\ UNCHANGED op_error
    /\ UNCHANGED <<dvars, pvars, jvars, xvars, vm, given, fs, fs_before, opened_files,
                   validator, errors, fed>>

\* lines 2387-2389
WriteCheckInputFile ==
    /\ op_pc = "input-file"
    /\ IF ~vm.input_file
       THEN OpThrow("error: missing required option '--input-file'")
       ELSE op_pc' = "validation-level" /\ UNCHANGED op_error
    /\ UNCHANGED <<dvars, pvars, jvars, xvars, vm, given, fs, fs_before, opened_files,
                   validator, errors, fed>>

\* lines 2390-2400
WriteValidationLevel ==
    /\ op_pc = "validation-level"
    /\ IF vm.validation_level \notin LevelNames
       THEN OpThrow("error: invalid validation-level")
       ELSE op_pc' = "generation" /\ UNCHANGED op_error
    /\ UNCHANGED <<dvars, pvars, jvars, xvars, vm, given, fs, fs_before, opened_files,
                   validator, errors, fed>>

\* lines 2403-2405
WriteCheckGeneration ==
    /\ op_pc = "generation"
    /\ IF ~vm.generation
       THEN OpThrow("error: missing required option '--generation'")
       ELSE op_pc' = "file_exists" /\ UNCHANGED op_error
    /\ UNCHANGED <<dvars, pvars, jvars, xvars, vm, given, fs, fs_before, opened_files,
                   validator, errors, fed>>

\* (mutant: the output sstable is never found to exist)
OutputExistsNever == FALSE

\* lines 2411-2412: file_exists() of the Data component's file
OutputExists == fs[Filename("Data")] # Absent

\* lines 2410-2415
WriteCheckExists ==
    /\ op_pc = "file_exists"
    /\ IF OutputExists
       THEN OpThrow("error: cannot create output sstable, file already exists")
       ELSE op_pc' = "open_file_dma" /\ UNCHANGED op_error
    /\ UNCHANGED <<dvars, pvars, jvars, xvars, vm, given, fs, fs_before, opened_files,
                   validator, errors, fed>>

\* line 2417: open_file_dma(input_file, open_flags::ro)
WriteOpenInput ==
    /\ op_pc = "open_file_dma"
    /\ IF fs[InputFile] = Absent
       THEN OpThrow("open: No such file or directory") /\ UNCHANGED opened_files
       ELSE /\ op_pc' = "write_components" /\ UNCHANGED op_error
            /\ opened_files' = opened_files \cup {InputFile}
    /\ UNCHANGED <<dvars, pvars, jvars, xvars, vm, given, fs, fs_before, validator, errors, fed>>

\* (mutant: the writer creates its files over existing ones)
WriterClashNever(files) == FALSE

\* the writer creates each component's file exclusively
WriterClash(files) == \E c \in ComponentTypes : files[Filename(c)] # Absent

\* lines 2421-2425: write_components() starts; the writer creates the files
\* of the components
WriterCreate ==
    /\ op_pc = "write_components"
    /\ IF WriterClash(fs)
       THEN OpThrow("SSTable write failed due to existence of a component file")
            /\ UNCHANGED <<fs, opened_files, validator, errors>>
       ELSE /\ fs' = [f \in Files |-> IF f = InputFile THEN fs[f] ELSE "partial"]
            /\ opened_files' = opened_files \cup {Filename(c) : c \in ComponentTypes}
            /\ validator' = NewValidator
            /\ errors' = NoErrors
            /\ op_pc' = "consume" /\ UNCHANGED op_error
    /\ UNCHANGED <<dvars, pvars, jvars, xvars, vm, given, fs_before, fed>>

\* the writer's cancel: the files it has created are removed
WriterCancel(files, created) ==
    [f \in Files |-> IF f \in created \ {InputFile} THEN Absent ELSE files[f]]

\* (mutant: a failed write leaves its files behind)
AbortWriteKeepsFiles(what) == OpThrow(what) /\ UNCHANGED fs

\* a failure of the stream ends the write: the writer is cancelled
AbortWrite(what) == OpThrow(what) /\ fs' = WriterCancel(fs, opened_files)

\* the writer takes the next fragment of the parser's stream through the
\* validator at the configured level; a violation is fatal
WriterConsume(f) ==
    /\ op_pc = "consume"
    /\ fed < MaxFed
    /\ fed' = fed + 1
    /\ errors' = Diagnose(errors, validator, f)
    /\ validator' = ValidatorUpdate(validator, f)
    /\ IF Reported(vm.validation_level, validator, f) # {}
       THEN AbortWrite("invalid mutation fragment stream")
       ELSE UNCHANGED <<fs, op_pc, op_error>>
    /\ UNCHANGED <<dvars, pvars, jvars, xvars, vm, given, fs_before, opened_files>>

\* the parser's stream fails: operator()() rethrows the parser's exception
WriterParseError ==
    /\ op_pc = "consume"
    /\ AbortWrite("parsing input failed")
    /\ UNCHANGED <<dvars, pvars, jvars, xvars, vm, given, fs_before, opened_files,
                   validator, errors, fed>>

\* the parser's stream ends: the validator checks the end of the stream and
\* the writer seals the sstable
WriterEndOfStream ==
    /\ op_pc = "consume"
    /\ errors' = Diagnose(errors, validator, StreamEnd)
    /\ IF Reported(vm.validation_level, validator, StreamEnd) # {}
       THEN AbortWrite("invalid mutation fragment stream")
       ELSE /\ fs' = [f \in Files |-> IF f = InputFile THEN fs[f] ELSE "sealed"]
            /\ op_pc' = "done" /\ UNCHANGED op_error
    /\ UNCHANGED <<dvars, pvars, jvars, xvars, vm, given, fs_before, opened_files,
                   validator, fed>>

\* the command lines of write, and the files found on disk
InitWrite ==
    /\ DriverOff /\ DumperOff /\ ParserInit("off", <<>>)
    /\ vm \in [input_file : BOOLEAN, generation : BOOLEAN,
               validation_level : LevelNames \cup {"strict"}]
    /\ given \in {<<>>, <<1>>}
    /\ fs \in [Files -> {Absent, "old"}]
    /\ fs_before = fs
    /\ opened_files = {} /\ op_pc = "write" /\ op_error = ""
    /\ validator = <<>> /\ errors = <<>> /\ fed = 0
    /\ readers = <<>> /\ combined = <<>> /\ ostream = <<>> /\ histogram = <<>>

NextWrite ==
    \/ WriteCheckSstables
    \/ WriteCheckInputFile
    \/ WriteValidationLevel
    \/ WriteCheckGeneration
    \/ WriteCheckExists
    \/ WriteOpenInput
    \/ WriterCreate
    \/ \E f \in ValidatedFragments : WriterConsume(f)
    \/ WriterParseError
    \/ WriterEndOfStream

SpecWrite == InitWrite /\ [][NextWrite]_vars

(***************************************************************************)
(* validate_operation, with the validator behind                           *)
(* scrub_validate_mode_validate_reader(). The validators of the four       *)
(* levels are fed the same stream side by side.                            *)
(***************************************************************************)
\* operations: the options each operation declares (available_options)
available_options ==
    [validate |-> {"merge"},
     write |-> {"input-file", "output-dir", "generation", "validation-level"}]

\* the options given on the command line of validate
GivenOptions ==
    (IF vm.merge THEN {"merge"} ELSE {})
        \cup (IF vm.validation_level # "" THEN {"validation-level"} ELSE {})

\* scylla_sstable_main, lines 3166-3176: only the options the operation
\* declares are added to the parser, which rejects any other
ValidateParseOptions ==
    /\ op_pc = "parse_options"
    /\ IF GivenOptions \subseteq available_options["validate"]
       THEN op_pc' = "validate" /\ UNCHANGED op_error
       ELSE OpThrow("unrecognised option")
    /\ UNCHANGED <<dvars, pvars, jvars, xvars, vm, given, fs, fs_before, opened_files,
                   validator, errors, fed>>

\* lines 909-911
ValidateCheckSstables ==
    /\ op_pc = "validate"
    /\ IF given = <<>>
       THEN OpThrow("error: no sstables specified on the command line")
       ELSE op_pc' = "consume_sstables" /\ UNCHANGED op_error
    /\ UNCHANGED <<dvars, pvars, jvars, xvars, vm, given, fs, fs_before, opened_files,
                   validator, errors, fed>>

\* consume_sstables calls the lambda of lines 914-921 with the combined
\* reader (merge) or with the reader of the next sstable; the validation
\* of that reader starts
ValidateNewReader ==
    /\ op_pc = "consume_sstables"
    /\ IF given = <<>>
       THEN op_pc' = "done" /\ UNCHANGED <<given, validator, errors, fed>>
       ELSE /\ given' = IF vm.merge THEN <<>> ELSE Tail(given)
            /\ validator' = NewValidator
            /\ errors' = NoErrors
            /\ fed' = 0
            /\ op_pc' = "validating"
    /\ UNCHANGED <<dvars, pvars, jvars, xvars, vm, fs, fs_before, opened_files, op_error>>

\* the validator is handed the reader's next fragment: it counts the errors
\* and goes on
ValidatorFeed(f) ==
    /\ op_pc = "validating"
    /\ fed < MaxFed
    /\ fed' = fed + 1
    /\ errors' = Diagnose(errors, validator, f)
    /\ validator' = ValidatorUpdate(validator, f)
    /\ UNCHANGED <<dvars, pvars, jvars, xvars, vm, given, fs, fs_before, opened_files,
                   op_pc, op_error>>

\* the reader is at its end: the validator checks the end of the stream,
\* lines 918-920 log the verdict and answer stop_iteration::no
ValidatorEndOfStream ==
    /\ op_pc = "validating"
    /\ errors' = Diagnose(errors, validator, StreamEnd)
    /\ validator' = ValidatorUpdate(validator, StreamEnd)
    /\ op_pc' = "consume_sstables"
    /\ UNCHANGED <<dvars, pvars, jvars, xvars, vm, given, fs, fs_before, opened_files,
                   op_error, fed>>

\* the command lines of validate
InitValidate ==
    /\ DriverOff /\ DumperOff /\ ParserInit("off", <<>>)
    /\ vm \in [merge : BOOLEAN, validation_level : LevelNames \cup {""}]
    /\ given \in {<<>>, <<1>>, <<1, 2>>}
    /\ fs = <<>> /\ fs_before = <<>> /\ opened_files = {}
    /\ op_pc = "parse_options" /\ op_error = ""
    /\ validator = <<>> /\ errors = <<>> /\ fed = 0
    /\ readers = <<>> /\ combined = <<>> /\ ostream = <<>> /\ histogram = <<>>

NextValidate ==
    \/ ValidateParseOptions
    \/ ValidateCheckSstables
    \/ ValidateNewReader
    \/ \E f \in ValidatedFragments : ValidatorFeed(f)
    \/ ValidatorEndOfStream

SpecValidate == InitValidate /\ [][NextValidate]_vars

(***************************************************************************)
(* The combined reader consume_sstables makes under --merge                *)
(* (make_combined_reader), yielding one fragment at a time.                *)
(***************************************************************************)
\* the place of a fragment within its partition: the static row, then the
\* clustering elements by position (a range tombstone change before the row
\* of the same position), then the partition_end
Rank(f) ==
    CASE f.kind = "static_row" -> 0
      [] f.kind = "range_tombstone_change" -> 2 * f.key
      [] f.kind = "clustering_row" -> 2 * f.key + 1
      [] OTHER -> 2 * (MaxElems + 2)

\* the readers that are at a partition boundary and not at their end
AtPartitionStart(rs) == {n \in 1..Len(rs) : rs[n] # <<>> /\ Head(rs[n]).kind = "partition_start"}

\* the readers that are within the partition being combined
InPartitionReaders(rs) ==
    {n \in 1..Len(rs) : rs[n] # <<>> /\ Head(rs[n]).kind # "partition_start"}

\* the readers in ns move past their head
Advance(rs, ns) == [n \in 1..Len(rs) |-> IF n \in ns THEN Tail(rs[n]) ELSE rs[n]]

\* (mutant: only the selected reader moves past its partition_start)
SelectedReadersOnlyFirst(rs, k) ==
    {CHOOSE n \in AtPartitionStart(rs) : Head(rs[n]).key = k}

\* at a partition boundary the readers whose head partition is the smallest
\* are selected; all of them contribute to the partition
SelectedReaders(rs, k) == {n \in AtPartitionStart(rs) : Head(rs[n]).key = k}

\* at a partition boundary: the partition_start of the smallest head
\* partition is yielded once
CombinerPartitionStart ==
    /\ op_pc = "combine"
    /\ InPartitionReaders(readers) = {}
    /\ AtPartitionStart(readers) # {}
    /\ LET k == CHOOSE k \in 1..MaxKey :
                   /\ \E n \in AtPartitionStart(readers) : Head(readers[n]).key = k
                   /\ \A n \in AtPartitionStart(readers) : Head(readers[n]).key >= k
       IN  /\ combined' = Append(combined, PS(k))
           /\ readers' = Advance(readers, SelectedReaders(readers, k))
    /\ UNCHANGED <<dvars, pvars, jvars, vm, given, fs, fs_before, opened_files, op_pc,
                   op_error, vvars, ostream, histogram>>

\* within a partition: the smallest fragment at the head of the contributing
\* readers is yielded once and every reader that has it moves past it; the
\* partition_end is the last
CombinerFragment ==
    /\ op_pc = "combine"
    /\ InPartitionReaders(readers) # {}
    /\ LET ns == InPartitionReaders(readers)
           m == CHOOSE m \in ns : \A n \in ns : Rank(Head(readers[m])) <= Rank(Head(readers[n]))
           f == Head(readers[m])
       IN  /\ combined' = Append(combined, f)
           /\ readers' = Advance(readers, {n \in ns : Head(readers[n]) = f})
    /\ UNCHANGED <<dvars, pvars, jvars, vm, given, fs, fs_before, opened_files, op_pc,
                   op_error, vvars, ostream, histogram>>

\* every reader is at its end: so is the combined reader
CombinerEndOfStream ==
    /\ op_pc = "combine"
    /\ \A n \in 1..Len(readers) : readers[n] = <<>>
    /\ op_pc' = "done"
    /\ UNCHANGED <<dvars, pvars, jvars, vm, given, fs, fs_before, opened_files,
                   op_error, vvars, xvars>>

\* lines 853-864: one reader per sstable, in the order of the sstables
InitCombine ==
    /\ DriverOff /\ DumperOff /\ ParserInit("off", <<>>)
    /\ vm = [merge |-> TRUE]
    /\ \E n \in 1..MaxSstables : given \in [1..n -> Streams]
    /\ readers = given /\ combined = <<>>
    /\ fs = <<>> /\ fs_before = <<>> /\ opened_files = {}
    /\ op_pc = "combine" /\ op_error = ""
    /\ validator = <<>> /\ errors = <<>> /\ fed = 0
    /\ ostream = <<>> /\ histogram = <<>>

NextCombine ==
    \/ CombinerPartitionStart
    \/ CombinerFragment
    \/ CombinerEndOfStream

SpecCombine == InitCombine /\ [][NextCombine]_vars

(***************************************************************************)
(* decompress_operation. A file's content is the sequence of its chunks.   *)
(***************************************************************************)
\* a file that is on disk, with its content, and a file that is not
File(bytes) == [exists |-> TRUE, bytes |-> bytes]
Missing == [exists |-> FALSE, bytes |-> <<>>]

\* sst->get_filename() + ".decompressed", for the sstable named i
Decompressed(i) == i

\* the sstables of the command line: compressed or not, with the number of
\* chunks the decompressed data stream yields
LoadedSstables ==
    UNION {[1..n -> [compressed : BOOLEAN, chunks : 0..MaxChunks]] : n \in 0..MaxSstables}

\* what a file that was on disk before the run holds: one chunk, or more
\* chunks than any run writes
OldFiles == {File(<<"old">>), File([i \in 1..(MaxChunks + 1) |-> "old"])}

\* the sstable the loop is at: the first of those left
CurrentSstable == Len(fs_before) - Len(given) + 1

\* open_file_dma(name, open_flags::wo | open_flags::create): a missing file
\* is created empty, an existing one is opened as it is
OpenCreate(files, name) ==
    [files EXCEPT ![name] = IF files[name].exists THEN files[name] ELSE File(<<>>)]

\* the output stream writes its next chunk at its position in the file
WriteChunk(bytes, at, chunk) ==
    IF at <= Len(bytes) THEN [bytes EXCEPT ![at] = chunk]
    ELSE Append(bytes, chunk)

\* closing the output stream cuts the file at the stream's position when
\* the last write was not aligned, and leaves its length alone when it was
Closed(bytes, at, aligned) ==
    IF aligned THEN bytes ELSE SubSeq(bytes, 1, at)

\* lines 1482-1484
DecompressCheckSstables ==
    /\ op_pc = "decompress"
    /\ IF given = <<>>
       THEN OpThrow("error: no sstables specified on the command line")
       ELSE op_pc' = "next" /\ UNCHANGED op_error
    /\ UNCHANGED <<dvars, pvars, jvars, vm, given, fs, fs_before, opened_files, vvars, xvars>>

\* lines 1486-1490: the loop over the sstables; one that is not compressed
\* is passed over
DecompressNextSstable ==
    /\ op_pc = "next"
    /\ IF given = <<>> THEN op_pc' = "done" /\ UNCHANGED given
       ELSE IF ~Head(given).compressed THEN given' = Tail(given) /\ UNCHANGED op_pc
       ELSE op_pc' = "open_file_dma" /\ UNCHANGED given
    /\ UNCHANGED <<dvars, pvars, jvars, vm, fs, fs_before, opened_files, op_error,
                   vvars, xvars>>

\* lines 1492-1502: the output file is opened (ok) or open_file_dma throws
DecompressOpen(ok) ==
    /\ op_pc = "open_file_dma"
    /\ IF ok
       THEN /\ fs' = OpenCreate(fs, Decompressed(CurrentSstable))
            /\ opened_files' = opened_files \cup {Decompressed(CurrentSstable)}
            /\ ostream' = [file |-> Decompressed(CurrentSstable), at |-> 0]
            /\ op_pc' = "consume" /\ UNCHANGED op_error
       ELSE OpThrow("open failed") /\ UNCHANGED <<fs, opened_files, ostream>>
    /\ UNCHANGED <<dvars, pvars, jvars, vm, given, fs_before, vvars, readers, combined,
                   histogram>>

\* lines 1504-1508: the next chunk of the data stream is written to the
\* output stream (ok), or reading, decompressing or writing it throws: the
\* deferred actions close the streams and the exception leaves the operation
DecompressCopy(ok) ==
    /\ op_pc = "consume"
    /\ ostream.at < Head(given).chunks
    /\ IF ok
       THEN /\ fs' = [fs EXCEPT ![ostream.file].bytes = WriteChunk(@, ostream.at + 1, "data")]
            /\ ostream' = [ostream EXCEPT !.at = @ + 1]
            /\ UNCHANGED <<op_pc, op_error>>
       ELSE OpThrow("copy failed") /\ UNCHANGED <<fs, ostream>>
    /\ UNCHANGED <<dvars, pvars, jvars, vm, given, fs_before, opened_files, vvars,
                   readers, combined, histogram>>

\* lines 1509-1512: the data stream is at its end; the output stream is
\* flushed (ok) and closed at the end of the loop's body, or flush() throws
DecompressFlush(ok, aligned) ==
    /\ op_pc = "consume"
    /\ ostream.at = Head(given).chunks
    /\ IF ok
       THEN /\ fs' = [fs EXCEPT ![ostream.file].bytes = Closed(@, ostream.at, aligned)]
            /\ ostream' = <<>>
            /\ given' = Tail(given)
            /\ op_pc' = "next" /\ UNCHANGED op_error
       ELSE OpThrow("flush failed") /\ UNCHANGED <<fs, ostream, given>>
    /\ UNCHANGED <<dvars, pvars, jvars, vm, fs_before, opened_files, vvars,
                   readers, combined, histogram>>

\* the command lines of decompress, and the output files found on disk
InitDecompress ==
    /\ DriverOff /\ DumperOff /\ ParserInit("off", <<>>)
    /\ vm = <<>>
    /\ given \in LoadedSstables
    /\ fs \in [{Decompressed(i) : i \in 1..Len(given)} -> {Missing} \cup OldFiles]
    /\ fs_before = fs
    /\ opened_files = {} /\ op_pc = "decompress" /\ op_error = ""
    /\ validator = <<>> /\ errors = <<>> /\ fed = 0
    /\ readers = <<>> /\ combined = <<>> /\ ostream = <<>> /\ histogram = <<>>

NextDecompress ==
    \/ DecompressCheckSstables
    \/ DecompressNextSstable
    \/ \E ok \in BOOLEAN : DecompressOpen(ok)
    \/ \E ok \in BOOLEAN : DecompressCopy(ok)
    \/ \E ok, aligned \in BOOLEAN : DecompressFlush(ok, aligned)

SpecDecompress == InitDecompress /\ [][NextDecompress]_vars

(***************************************************************************)
(* writetime_histogram_collecting_consumer: the histogram and its file.    *)
(***************************************************************************)
\* the width of a bucket, in the unit of the timestamps
BucketWidth == 2

\* timestamp_bucket(): the timestamp cut down to the start of its bucket
timestamp_bucket(ts) == (ts \div BucketWidth) * BucketWidth

\* collect_timestamp(): the count of the timestamp's bucket goes up by one
collect_timestamp(h, ts) ==
    LET b == timestamp_bucket(ts)
    IN  [x \in DOMAIN h \cup {b} |-> IF x = b THEN (IF b \in DOMAIN h THEN h[b] + 1 ELSE 1)
                                     ELSE h[x]]

\* the buckets of the histogram in ascending order (std::map)
RECURSIVE Ascending(_)
Ascending(bs) ==
    IF bs = {} THEN <<>>
    ELSE LET b == CHOOSE b \in bs : \A x \in bs : b <= x
         IN  <<b>> \o Ascending(bs \ {b})

\* lines 744-762: what on_end_of_stream writes for the histogram h
Serialised(h) ==
    LET bs == Ascending(DOMAIN h)
    IN  <<"{", "buckets: [">> \o bs \o <<"]", "counts: [">>
            \o [i \in 1..Len(bs) |-> h[bs[i]]] \o <<"]", "}">>

HistogramFile == "histogram.json"

\* a histogram.json of an earlier run: shorter or longer than any this run
\* writes
OldHistograms == {File(<<"old">>), File([i \in 1..(2 * MaxCollected + 5) |-> "old"])}

\* api::missing_timestamp, the timestamp of an empty tombstone (stand-in for
\* the least 64 bit integer)
missing_timestamp == 0 - BucketWidth

\* tombstone::timestamp
TimestampOf(t) == IF t = NoTomb THEN missing_timestamp ELSE t[1]

\* collect_row, collect_column: the timestamp of every cell of the row (the
\* rows of the model hold atomic cells only)
RowTimestamps(cells) ==
    LET RECURSIVE of(_)
        of(cols) ==
            IF cols = {} THEN <<>>
            ELSE LET col == CHOOSE col \in cols : TRUE
                 IN  (IF cells[col].state = "absent" THEN <<>> ELSE <<cells[col].ts>>)
                     \o of(cols \ {col})
    IN  of(DOMAIN cells)

\* consume(range_tombstone_change&&), lines 721-724
RangeTombstoneChangeTimestamps(mf) == <<TimestampOf(mf.tomb)>>

\* the timestamps the consume() of the fragment's kind hands to
\* collect_timestamp, lines 707-725 with collect_static_row and
\* collect_clustering_row
Collected(mf) ==
    CASE mf.kind = "partition_start" ->
            IF mf.tomb # NoTomb THEN <<TimestampOf(mf.tomb)>> ELSE <<>>
      [] mf.kind = "static_row" -> RowTimestamps(mf.cells)
      [] mf.kind = "clustering_row" ->
            (IF mf.marker.kind # "missing" THEN <<mf.marker.ts>> ELSE <<>>)
            \o (IF mf.rtomb # NoRowTomb THEN <<TimestampOf(RowTombMax(mf.rtomb))>> ELSE <<>>)
            \o RowTimestamps(mf.cells)
      [] mf.kind = "range_tombstone_change" -> RangeTombstoneChangeTimestamps(mf)
      [] OTHER -> <<>>

RECURSIVE CollectAll(_, _)
CollectAll(h, tss) ==
    IF tss = <<>> THEN h ELSE CollectAll(collect_timestamp(h, Head(tss)), Tail(tss))

\* the fragments the histogram consumer is handed
HistogramFragments ==
    {PartitionStart(<<1>>, t) : t \in {NoTomb, Tomb(1, 3)}}
    \cup {StaticRow(EmptyRow), StaticRow([EmptyRow EXCEPT !.s = LiveCell(3, 1)])}
    \cup {ClusteringRow(<<1>>, rt, m, cells) :
             rt \in {NoRowTomb, RowTomb(Tomb(1, 3), NoTomb), RowTomb(NoTomb, Tomb(MaxTimestamp, 3)),
                     RowTomb(Tomb(1, 3), Tomb(MaxTimestamp, 3))},
             m \in {NoMarker, Marker("live", 3, 0, 0)},
             cells \in {EmptyRow, [EmptyRow EXCEPT !.v = DeadCell(MaxTimestamp, 3)]}}
    \cup {RangeTombstoneChange(<<1>>, w, t) : w \in {-1, 1}, t \in {NoTomb, Tomb(3, 3)}}
    \cup {PartitionEnd}

\* consume(): the timestamps of the fragment are collected
HistogramConsume(mf) ==
    /\ op_pc = "collect"
    /\ fed < MaxCollected
    /\ fed' = fed + 1
    /\ histogram' = CollectAll(histogram, Collected(mf))
    /\ UNCHANGED <<dvars, pvars, jvars, vm, given, fs, fs_before, opened_files, op_pc,
                   op_error, validator, errors, readers, combined, ostream>>

\* on_end_of_stream, lines 733-742: nothing is done for an empty histogram;
\* else the file is opened (ok) or open_file_dma throws
HistogramOnEndOfStream(ok) ==
    /\ op_pc = "collect"
    /\ IF histogram = <<>>
       THEN op_pc' = "done" /\ UNCHANGED <<fs, opened_files, ostream, op_error>>
       ELSE IF ok
       THEN /\ fs' = OpenCreate(fs, HistogramFile)
            /\ opened_files' = {HistogramFile}
            /\ ostream' = [file |-> HistogramFile, at |-> 0]
            /\ op_pc' = "write" /\ UNCHANGED op_error
       ELSE OpThrow("open failed") /\ UNCHANGED <<fs, opened_files, ostream>>
    /\ UNCHANGED <<dvars, pvars, jvars, vm, given, fs_before, vvars, readers, combined,
                   histogram>>

RECURSIVE WriteAll(_, _, _)
\* the chunks are written one after the other from the stream's position
WriteAll(bytes, at, chunks) ==
    IF chunks = <<>> THEN bytes
    ELSE WriteAll(WriteChunk(bytes, at + 1, Head(chunks)), at + 1, Tail(chunks))

\* lines 744-764: the histogram is written from the start of the file and
\* the stream is closed
HistogramWrite(aligned) ==
    /\ op_pc = "write"
    /\ LET chunks == Serialised(histogram)
       IN  fs' = [fs EXCEPT ![HistogramFile].bytes =
                     Closed(WriteAll(@, 0, chunks), Len(chunks), aligned)]
    /\ ostream' = <<>>
    /\ op_pc' = "done"
    /\ UNCHANGED <<dvars, pvars, jvars, vm, given, fs_before, opened_files, op_error,
                   vvars, readers, combined, histogram>>

\* a run of writetime-histogram, with or without a histogram.json on disk
InitHistogram ==
    /\ DriverOff /\ DumperOff /\ ParserInit("off", <<>>)
    /\ vm = <<>> /\ given = <<>>
    /\ fs \in [{HistogramFile} -> {Missing} \cup OldHistograms]
    /\ fs_before = fs
    /\ opened_files = {} /\ op_pc = "collect" /\ op_error = ""
    /\ validator = <<>> /\ errors = <<>> /\ fed = 0
    /\ readers = <<>> /\ combined = <<>> /\ ostream = <<>> /\ histogram = <<>>

NextHistogram ==
    \/ \E mf \in HistogramFragments : HistogramConsume(mf)
    \/ \E ok \in BOOLEAN : HistogramOnEndOfStream(ok)
    \/ \E aligned \in BOOLEAN : HistogramWrite(aligned)

SpecHistogram == InitHistogram /\ [][NextHistogram]_vars

(***************************************************************************)
(* get_partitions: the keys of the partitions file, which the input stream *)
(* hands over in buffers of any size. Characters are their codes.          *)
(***************************************************************************)
\* the characters of the files: the hex digits 0 and 1, space and newline
FileChars == {48, 49, 32, 10}
FileContents == UNION {[1..n -> FileChars] : n \in 0..MaxFileLen}

\* std::isspace in the C locale
isspace(c) == c \in {9, 10, 11, 12, 13, 32}

\* the text of a key of the file, for from_hex()
HexText(chars) == Text("hex", [i \in 1..Len(chars) |-> chars[i] - 48])
DkFromHexThrows(chars) == FromHexThrows(HexText(chars))
\* dk_from_hex, lines 76-79: the key is its bytes
dk_from_hex(chars) == from_hex(HexText(chars))

\* std::find_if(buf.begin(), buf.end(), isspace) - buf.begin()
RECURSIVE FirstSpace(_)
FirstSpace(buf) ==
    IF buf = <<>> \/ isspace(Head(buf)) THEN 0 ELSE 1 + FirstSpace(Tail(buf))

\* (variant: the part of the key kept from the buffer before is dropped)
JoinKeyDropsPart(pk, buf, len) == SubSeq(buf, 1, len)

\* lines 99-107: the key so far and the characters before the whitespace
JoinKey(pk, buf, len) ==
    IF pk # <<>> THEN pk \o SubSeq(buf, 1, len) ELSE SubSeq(buf, 1, len)

\* the do-while loop of lines 92-114 over one buffer: the key in progress,
\* the set of keys, and whether dk_from_hex threw
RECURSIVE ReadBuffer(_, _, _)
ReadBuffer(buf, pk, ps) ==
    IF buf = <<>> THEN [pk_buf |-> pk, partitions |-> ps, thrown |-> FALSE]
    ELSE LET len == FirstSpace(buf) IN
         IF len = 0 /\ pk = <<>> THEN ReadBuffer(Tail(buf), pk, ps)
         ELSE LET key == JoinKey(pk, buf, len)
                  rest == SubSeq(buf, len + 1, Len(buf))
              IN  IF rest # <<>>
                  THEN IF DkFromHexThrows(key)
                       THEN [pk_buf |-> key, partitions |-> ps, thrown |-> TRUE]
                       ELSE ReadBuffer(Tail(rest), <<>>, ps \cup {dk_from_hex(key)})
                  ELSE ReadBuffer(rest, key, ps)

\* fstream.read() hands over the next n characters, lines 91-115
PartitionsRead(n) ==
    /\ pc = "get_partitions"
    /\ n <= Len(pfile)
    /\ LET r == ReadBuffer(SubSeq(pfile, 1, n), pk_buf, partitions) IN
       /\ pk_buf' = r.pk_buf
       /\ partitions' = r.partitions
       /\ pc' = IF r.thrown THEN "thrown" ELSE pc
    /\ pfile' = SubSeq(pfile, n + 1, Len(pfile))
    /\ UNCHANGED <<pvars, jvars, ovars, pfile_content, names, merge, no_skips, native_skip,
                   pending, sstables, idx, cur_sst, content, rd, rd_eos, skip_partition,
                   trace, top>>

\* fstream.read() returns an empty buffer, lines 116-118: the last line
\* might not have an end of line
PartitionsEndOfFile ==
    /\ pc = "get_partitions"
    /\ pfile = <<>>
    /\ IF pk_buf = <<>> THEN pc' = "got_partitions" /\ UNCHANGED partitions
       ELSE IF DkFromHexThrows(pk_buf) THEN pc' = "thrown" /\ UNCHANGED partitions
       ELSE pc' = "got_partitions" /\ partitions' = partitions \cup {dk_from_hex(pk_buf)}
    /\ UNCHANGED <<pvars, jvars, ovars, gvars, names, merge, no_skips, native_skip,
                   pending, sstables, idx, cur_sst, content, rd, rd_eos, skip_partition,
                   trace, top>>

\* get_partitions with --partitions-file and no --partition
InitPartitions ==
    /\ ParserInit("off", <<>>) /\ DumperOff /\ OpsOff
    /\ names = <<>> /\ merge = FALSE /\ no_skips = FALSE /\ native_skip = TRUE
    /\ partitions = {}
    /\ pending = {} /\ sstables = <<>> /\ idx = 0 /\ cur_sst = 0
    /\ content = <<>> /\ rd = <<>> /\ rd_eos = FALSE /\ skip_partition = FALSE
    /\ trace = <<>> /\ top = <<>> /\ pc = "get_partitions"
    /\ pfile_content \in FileContents /\ pfile = pfile_content /\ pk_buf = <<>>

NextPartitions ==
    \/ \E n \in 1..MaxFileLen : PartitionsRead(n)
    \/ PartitionsEndOfFile

SpecPartitions == InitPartitions /\ [][NextPartitions]_vars

(***************************************************************************)
(* The claims about the reader driver.                                     *)
(***************************************************************************)
IsConsume(c, kinds) == c.op = "consume" /\ c.kind \in kinds

\* the fragments handed to the consumer for the current sstable, in order
Delivered ==
    LET cs == SelectSeq(trace, LAMBDA c : c.op = "consume")
    IN  [i \in 1..Len(cs) |-> [kind |-> cs[i].kind, key |-> cs[i].key]]

IsPrefix(s, t) == Len(s) <= Len(t) /\ \A i \in 1..Len(s) : s[i] = t[i]

RECURSIVE RestrictFrom(_, _)
\* a stream restricted to the partitions whose key is in the filter set
RestrictFrom(s, keep) ==
    IF s = <<>> THEN <<>>
    ELSE LET k == IF Head(s).kind = "partition_start"
                  THEN Head(s).key \in partitions ELSE keep
         IN  (IF k THEN <<Head(s)>> ELSE <<>>) \o RestrictFrom(Tail(s), k)

Accepted(k) == partitions = {} \/ k \in partitions

\* the key of the partition the i-th call of trace belongs to
CurKey(i) ==
    LET js == {j \in 1..i : IsConsume(trace[j], {"partition_start"})}
    IN  IF js = {} THEN 0
        ELSE trace[CHOOSE j \in js : \A m \in js : m <= j].key

\* the keys of the partitions of the reader's stream that follow partition k
\* and pass the filter
Following(k) ==
    {content[j].key : j \in {m \in 1..Len(content) :
        content[m].kind = "partition_start" /\ content[m].key > k
        /\ Accepted(content[m].key)}}

SstableEnded == trace # <<>> /\ trace[Len(trace)].op = "on_end_of_sstable"

\* C1: a stop returned from consume(partition_start | static_row |
\* clustering_row | range_tombstone_change) is followed by exactly one
\* synthetic consume(partition_end) and no further fragment of that
\* partition; after it the following partitions of the sstable are delivered.
C1_MidPartitionStopSkipsPartition ==
    \A i \in 1..Len(trace) :
        (IsConsume(trace[i], MidKinds) /\ trace[i].ans = "stop" /\ i < Len(trace))
        => /\ IsConsume(trace[i + 1], {"partition_end"})
           /\ trace[i + 1].syn
           /\ (i + 2 <= Len(trace) /\ trace[i + 1].ans = "continue")
              => IF Following(CurKey(i)) = {}
                 THEN trace[i + 2].op = "on_end_of_sstable"
                 ELSE /\ IsConsume(trace[i + 2], {"partition_start"})
                      /\ trace[i + 2].key \in Following(CurKey(i))
                      /\ \A k \in Following(CurKey(i)) : trace[i + 2].key <= k

\* C2: a stop returned from consume(partition_end) of a partition read from
\* the reader is followed by on_end_of_sstable, with no consume call (no
\* second partition_end) in between.
C2_PartitionEndStopSkipsSstable ==
    \A i \in 1..Len(trace) :
        (IsConsume(trace[i], {"partition_end"}) /\ ~trace[i].syn
         /\ trace[i].ans = "stop" /\ i < Len(trace))
        => trace[i + 1].op = "on_end_of_sstable"

\* the partition_start calls minus the partition_end calls before call i
OpenBefore(i) ==
    Cardinality({j \in 1..(i - 1) : IsConsume(trace[j], {"partition_start"})})
    - Cardinality({j \in 1..(i - 1) : IsConsume(trace[j], {"partition_end"})})

\* C3: the consume calls between on_new_sstable and on_end_of_sstable obey
\* the partition grammar: a partition_start only outside a partition, every
\* other fragment only inside one, and on_end_of_sstable only outside.
C3_ConsumerSequenceObeysGrammar ==
    \A i \in 1..Len(trace) :
        /\ IsConsume(trace[i], {"partition_start"}) => OpenBefore(i) = 0
        /\ IsConsume(trace[i], {"static_row", "partition_end"} \cup ElemKinds)
              => OpenBefore(i) = 1
        /\ trace[i].op = "on_end_of_sstable" => OpenBefore(i) = 0

AllContinue == \A i \in 1..Len(trace) : trace[i].ans = "continue"

\* C4: with a non-empty partition filter and a consumer that always answers
\* continue, the consume calls for an sstable are the reader's stream
\* restricted to the partitions of the filter set: always a prefix of it,
\* and the whole of it once the sstable has ended.
C4_FilterDeliversExactlyAcceptedPartitions ==
    (partitions # {} /\ AllContinue)
    => /\ IsPrefix(Delivered, RestrictFrom(content, FALSE))
       /\ SstableEnded => Delivered = RestrictFrom(content, FALSE)

\* C4's case: partition 1 is rejected and has a static row and a clustering
\* element, partition 2 is accepted, the sstable has ended, no_skips is set
C4_Witness ==
    /\ partitions = {2}
    /\ no_skips
    /\ AllContinue
    /\ SstableEnded
    /\ HasFrag(content, 1, SR)
    /\ \E kd \in ElemKinds : HasFrag(content, 1, Elem(kd, 1))
    /\ \E kd \in ElemKinds : HasFrag(content, 2, Elem(kd, 1))
    /\ Len(Delivered) >= 3

\* whether the current sstable is the last one of the vector
LastSstable == merge \/ idx = Len(sstables)

\* C5: when on_new_sstable returns stop, no consume call is made for that
\* sstable and on_end_of_sstable is called once; its answer decides whether
\* the run goes on with the next sstable.
C5_NewSstableStopSkipsContent ==
    (trace # <<>> /\ trace[1].ans = "stop")
    => /\ Len(trace) <= 2
       /\ Len(trace) = 1 => pc = "end_sstable"
       /\ Len(trace) = 2 =>
            /\ trace[2].op = "on_end_of_sstable"
            /\ trace[2].ans = "stop" => pc \in {"end_stream", "done"}
            /\ (trace[2].ans = "continue" /\ ~merge
                /\ sstables[Len(sstables)] # cur_sst) => pc = "next_sstable"

\* C5's case: the first of two sstables was skipped by on_new_sstable, its
\* on_end_of_sstable answered continue and the run is at the next sstable
C5_Witness ==
    /\ ~merge
    /\ Len(sstables) = 2
    /\ Len(trace) = 2
    /\ trace[1].ans = "stop"
    /\ trace[2].ans = "continue"
    /\ pc = "next_sstable"
    /\ idx = 2

\* C6: without merge, once on_end_of_sstable has returned stop no later
\* sstable is processed: the only consumer call that follows is
\* on_end_of_stream.
C6_EndOfSstableStopEndsRun ==
    ~merge =>
    \A i \in 1..Len(top) :
        (top[i].op = "on_end_of_sstable" /\ top[i].ans = "stop")
        => /\ Len(top) <= i + 1
           /\ Len(top) = i + 1 => top[i + 1].op = "on_end_of_stream"
           /\ pc \in {"end_stream", "done"}
           /\ SstableEnded
           /\ trace[Len(trace)].key = top[i].key

\* C6's case: two sstables were given, the first one's on_end_of_sstable
\* answered stop and the run has ended
C6_Witness ==
    /\ ~merge
    /\ Len(sstables) = 2
    /\ pc = "done"
    /\ Len(top) = 4
    /\ top[3].op = "on_end_of_sstable"
    /\ top[3].ans = "stop"
    /\ top[4].op = "on_end_of_stream"

\* the sstables on_new_sstable was called with, in call order
Visited ==
    LET ns == SelectSeq(top, LAMBDA c : c.op = "on_new_sstable")
    IN  [i \in 1..Len(ns) |-> ns[i].key]

\* C7: without merge the sstables are consumed in the order of their paths
\* on the command line, whatever the order in which their loads complete.
C7_SstablesConsumedInCommandLineOrder ==
    ~merge => IsPrefix(Visited, names)

(***************************************************************************)
(* The claims about the dumper and the parser.                             *)
(***************************************************************************)
\* C8: round trip. When the parser has read the whole structured dump of a
\* well-formed fragment stream of one sstable, the items it has pushed are
\* the fragments of that stream (kinds, keys, tombstones, markers and cells),
\* in the same order, followed by the end of the stream.
C8_DumpParseRoundTrip ==
    (mode = "doc" /\ parse_result # "running")
        => parsed = stream \o <<EndOfStream>>

\* C9: when a partition object is closed, a partition key was read and no
\* partition_start was emitted for the partition yet, the parser pushes a
\* partition_start and then the partition_end.
C9_KeyOnlyPartitionGetsPartitionStart ==
    [][(/\ Top(handler, 0) = "in_partition"
        /\ ~handler.partition_start_emited
        /\ IsSome(handler.pkey)
        /\ handler'.state_stack[1] = "before_partition")
       => pushed' = pushed \o <<"partition_start", "partition_end">>]_vars

\* C10: error policy. Whenever the parser stops before the top-level value
\* is complete (an event the top state does not accept, a failed retire or
\* finalize action), the queue was aborted with an error; and once the queue
\* is aborted nothing more is pushed, the end of the stream included.
C10_ErrorAbortsStreamAndStopsParser ==
    /\ [](parse_result \in {"error", "thrown"} => (queue_ex /\ queue = <<>>))
    /\ [](queue_ex => \A i \in 1..Len(pushed) : pushed[i] # "eos")
    /\ [][queue_ex => (pushed' = pushed /\ handler' = handler)]_vars

(***************************************************************************)
(* The claims about the objects the parser accepts.                        *)
(***************************************************************************)
\* C11: every range_tombstone_change the parser pushes has bound weight -1
\* or 1; and closing a range-tombstone-change object that has no weight
\* member, the weight 0 or no tombstone member is an error that pushes
\* nothing.
C11_RangeTombstoneChangeNeedsWeightAndTombstone ==
    /\ [](\A i \in 1..Len(parsed) :
            parsed[i].kind = "range_tombstone_change" => parsed[i].weight \in {-1, 1})
    /\ [][(/\ Closing("in_range_tombstone_change")
           /\ \/ "weight" \notin OwnKeys(doc, pos)
              \/ "tombstone" \notin OwnKeys(doc, pos)
              \/ doc[LastOwn(doc, pos, "weight") + 1].i = 0)
          => Rejected]_vars

\* a range-tombstone-change object with the weight 0 and a tombstone was
\* closed after a complete element, and rejected
C11_Witness ==
    /\ mode = "text" /\ parse_result = "error" /\ queue_ex
    /\ Top(handler, 0) = "in_range_tombstone_change"
    /\ doc[pos - 1].type = "EndObject"
    /\ handler.bound_weight = Some(0) /\ IsSome(handler.row_tombstone)
    /\ Len(parsed) > 1

\* the object that the next EndObject closes has exactly one of the members
\* ttl and expiry
OneOfTtlAndExpiry == ("ttl" \in OwnKeys(doc, pos)) # ("expiry" \in OwnKeys(doc, pos))

\* C12: closing a row marker object or a cell object that has exactly one of
\* the members ttl and expiry is an error; nothing is pushed for it.
C12_TtlAndExpiryOnlyTogether ==
    [][((Closing("in_marker") \/ Closing("in_column")) /\ OneOfTtlAndExpiry)
       => Rejected]_vars

\* the cell object that the next EndObject closes lacks a member it needs
CellIncomplete ==
    \/ "is_live" \notin OwnKeys(doc, pos)
    \/ "timestamp" \notin OwnKeys(doc, pos)
    \/ /\ doc[LastOwn(doc, pos, "is_live") + 1].b
       /\ "value" \notin OwnKeys(doc, pos)
    \/ /\ ~doc[LastOwn(doc, pos, "is_live") + 1].b
       /\ "deletion_time" \notin OwnKeys(doc, pos)

\* C13: closing a cell object that lacks is_live or timestamp, or value when
\* is_live is true, or deletion_time when is_live is false, is an error: the
\* row keeps the cells it had and nothing is pushed.
C13_CellNeedsLivenessTimestampAndData ==
    [][(Closing("in_column") /\ CellIncomplete)
       => (Rejected /\ handler'.row = handler.row)]_vars

\* C13: a live cell object without value, after a complete cell of the same
\* row, was closed and rejected.
C13_Witness ==
    /\ mode = "text" /\ parse_result = "error" /\ queue_ex
    /\ Top(handler, 0) = "in_column"
    /\ doc[pos - 1].type = "EndObject"
    /\ handler.column # None
    /\ Val(handler.column).is_live = Some(TRUE)
    /\ IsSome(Val(handler.column).timestamp)
    /\ ~IsSome(Val(handler.column).value)
    /\ IsSome(handler.row) /\ Val(handler.row)["s"].state = "live"

\* the next event is the key of a column that the row being read cannot
\* take: a name the schema does not have, a column that is not static in a
\* static row or not regular in the columns of a clustering row, a column
\* that is not atomic or a counter column
BadColumnKey ==
    /\ parse_result = "running" /\ mode = "text"
    /\ Top(handler, 0) = "before_column_key"
    /\ pos <= Len(doc) /\ doc[pos].type = "Key"
    /\ pos' = pos + 1
    /\ LET col == doc[pos].k IN
       \/ col \notin ColumnNames
       \/ /\ col \in ColumnNames
          /\ \/ Top(handler, 1) = "before_static_columns" /\ Schema[col].kind # "static_column"
             \/ Top(handler, 1) = "before_clustering_columns" /\ Schema[col].kind # "regular_column"
             \/ ~Schema[col].atomic
             \/ Schema[col].counter

\* C14: the key of a column that is unknown, of the wrong kind for the row,
\* not atomic or a counter is an error at the key itself, before any event
\* of its value is read, and no row pushed has a cell of such a column.
C14_BadColumnKeyRejectedAtKey ==
    /\ [][BadColumnKey => Rejected]_vars
    /\ [](\A i \in 1..Len(parsed) :
            \A col \in RowColumns :
                parsed[i].cells[col].state # "absent"
                => (Schema[col].atomic /\ ~Schema[col].counter))

(***************************************************************************)
(* The claims about the queue between the parser and its reader.           *)
(***************************************************************************)
\* C15: the queue holds at most one item; an item is pushed only when every
\* item pushed before it has been taken; and the items are taken in the
\* order they were pushed: what was taken, followed by what the queue holds,
\* is what was pushed (what was taken is a prefix of it once the queue was
\* aborted).
C15_QueueHandsOverOneAtATimeInOrder ==
    /\ [](Len(queue) <= 1)
    /\ [](IF queue_ex THEN IsPrefix(received, parsed) ELSE parsed = received \o queue)
    /\ [][Len(parsed') > Len(parsed)
          => (received = parsed /\ Len(parsed') = Len(parsed) + 1)]_vars

\* C15: two fragments were taken and a third one waits in the queue.
C15_Witness ==
    /\ parse_result = "running" /\ Len(received) = 2 /\ Len(queue) = 1 /\ Len(parsed) = 3
    /\ received[1].kind = "partition_start"

(***************************************************************************)
(* The claims about the top level of the document and the state stack.     *)
(***************************************************************************)
\* the handler is called with the event that closes the top-level array
ClosingTopLevelArray ==
    /\ parse_result = "running" /\ mode = "text"
    /\ pos <= Len(doc) /\ doc[pos].type = "EndArray"
    /\ OpenOf(doc, pos - 1, 0) = 1
    /\ pos' = pos + 1

\* C16: a first event that is not the start of an array is an error; the
\* end of the stream is pushed by the event that closes the top-level array
\* and by no other event; it is pushed at most once and nothing is pushed
\* after it.
C16_EndOfStreamOnceWhenTopLevelArrayCloses ==
    /\ [][(parse_result = "running" /\ mode = "text" /\ pos = 1 /\ pos' = 2
           /\ doc[1].type # "StartArray")
          => Rejected]_vars
    /\ [][ClosingTopLevelArray <=> (parsed' = Append(parsed, EndOfStream))]_vars
    /\ [](\A i \in 1..Len(parsed) : parsed[i] = EndOfStream => i = Len(parsed))

\* C16: the array of two partitions was closed; the end of the stream was
\* pushed after the fragments of both.
C16_Witness ==
    /\ mode = "text" /\ parse_result = "done" /\ pos = Len(doc) + 1
    /\ Len(parsed) >= 5
    /\ parsed[Len(parsed)] = EndOfStream
    /\ Cardinality({i \in 1..Len(parsed) : parsed[i].kind = "partition_end"}) = 2

\* C17, as claimed: the state stack never holds more than 8 states.
C17_StateStackAtMostEight == Len(handler.state_stack) <= 8

\* C17, amended: the state stack never holds more than 12 states.
C17_StateStackAtMostTwelve == Len(handler.state_stack) <= 12

\* C17: the stack holds 12 states when a string member of a cell of a
\* clustering row is about to be read.
C17_Witness ==
    /\ parse_result = "running"
    /\ handler.state_stack =
         <<"before_string", "in_column", "before_column", "before_column_key",
           "before_clustering_columns", "in_clustering_row", "in_clustering_element",
           "before_clustering_element", "before_clustering_elements", "in_partition",
           "before_partition", "start">>

(***************************************************************************)
(* The claims about the JSON dumper.                                       *)
(***************************************************************************)
\* the clustering elements consumed in the partition being dumped
ElementsInPartition ==
    Cardinality({i \in 1..Len(calls) :
        /\ calls[i] \in {"clustering_row", "range_tombstone_change"}
        /\ \A j \in i..Len(calls) : calls[j] # "partition_start"})

\* C18: the dumper never closes a container that is not the innermost open
\* one; after on_end_of_stream no container is open; in a partition the
\* "clustering_elements" array was opened once if a clustering element was
\* consumed and not at all otherwise, and it is the innermost open container
\* exactly then; after partition_end the array of the sstable is the
\* innermost open container again.
C18_DumperContainersBalanced ==
    /\ balanced
    /\ LastCall = "on_end_of_stream" => level_stack = <<>>
    /\ InPartition =>
          /\ opened = (IF ElementsInPartition > 0 THEN 1 ELSE 0)
          /\ level_stack = (IF opened = 1 THEN <<"array">> ELSE <<>>)
                           \o <<"object", "array", "object", "object">>
    /\ LastCall = "partition_end" =>
          (opened <= 1 /\ level_stack = <<"array", "object", "object">>)

\* C18: a stream of one sstable was dumped to its end, with a partition of
\* two clustering elements and a partition of none.
C18_Witness ==
    /\ calls = <<"on_start_of_stream", "on_new_sstable", "partition_start",
                 "clustering_row", "range_tombstone_change", "partition_end",
                 "partition_start", "partition_end", "on_end_of_sstable",
                 "on_end_of_stream">>
    /\ level_stack = <<>> /\ balanced

(***************************************************************************)
(* The claims about the two ways of skipping and about --merge.            *)
(***************************************************************************)
\* the reader at the skip of lines 838-845, in the steps that skip: the
\* step that drops a partition_start the filter rejects, and the step that
\* goes on after the synthetic partition_end
SkippedReader ==
    IF pc = "pausable" /\ rd # <<>> /\ FilterRejects(Head(rd)) THEN Tail(rd) ELSE rd
Skipping ==
    \/ /\ pc = "pausable" /\ rd # <<>> /\ FilterRejects(Head(rd))
       /\ pc' \in {"pausable", "end_sstable"}
    \/ pc = "synthetic_pe" /\ pc' = "pausable"

\* C19: on a reader whose next_partition() does nothing, the run with
\* no_skips and the run without it make the same consumer calls. The driver
\* is deterministic and no_skips is read at the skip only, so the two runs
\* make the same calls exactly if every skip leaves the reader with the same
\* fragments either way; a reader left with more fragments hands the next
\* of them to the consumer.
C19_NoSkipsAndDefaultSkipAlike ==
    [][Skipping =>
          SkipRestAs(SkippedReader, TRUE, TRUE) = SkipRestAs(SkippedReader, TRUE, FALSE)]_vars

\* the stream-level calls of a kind
TopCalls(op) == SelectSeq(top, LAMBDA c : c.op = op)

\* C20: with --merge the stream-level calls are, in this order,
\* on_start_of_stream, one on_new_sstable without an sstable (written as the
\* key "anonymous"), one on_end_of_sstable, on_end_of_stream: a prefix of
\* them at any time, all of them when the run is over; and with no filter
\* and a consumer that always continues, the fragments consumed between the
\* two are the whole stream of the combined reader.
C20_MergeIsOneAnonymousSstable ==
    merge =>
       /\ IsPrefix([i \in 1..Len(top) |-> top[i].op],
                   <<"on_start_of_stream", "on_new_sstable", "on_end_of_sstable",
                     "on_end_of_stream">>)
       /\ \A i \in 1..Len(top) :
             top[i].op \in {"on_new_sstable", "on_end_of_sstable"}
             => (top[i].key = 0 /\ SstableKey(top[i].key) = <<EvKey("anonymous")>>)
       /\ pc = "done" =>
             /\ Len(top) = 4
             /\ (partitions = {} /\ AllContinue) => Delivered = content

\* C20: two sstables were merged and the run is over; the combined stream
\* has two partitions, all of it consumed.
C20_Witness ==
    /\ merge /\ pc = "done" /\ Len(sstables) = 2
    /\ partitions = {} /\ AllContinue
    /\ Len(TopCalls("on_new_sstable")) = 1
    /\ Delivered = content
    /\ Cardinality({i \in 1..Len(content) : content[i].kind = "partition_start"}) = 2

(***************************************************************************)
(* The claims about the write operation and the validator.                 *)
(***************************************************************************)
\* one of the preconditions of write_operation is violated
PreconditionViolated ==
    \/ given # <<>>
    \/ ~vm.input_file
    \/ ~vm.generation
    \/ vm.validation_level \notin LevelNames
    \/ fs_before[Filename("Data")] # Absent

\* C21: when input sstables were given, --input-file or --generation is
\* missing, the validation level's name is not one of the four levels or the
\* output sstable exists already, write_operation opens no file, leaves the
\* files on disk as they were and can only end in failure.
C21_WritePreconditions ==
    PreconditionViolated =>
       /\ op_pc \in {"write", "input-file", "validation-level", "generation",
                     "file_exists", "failed"}
       /\ op_pc = "failed" => op_error # ""
       /\ opened_files = {}
       /\ fs = fs_before

\* C21 (witness): the write failed because the output sstable exists, every
\* other precondition being met
C21_Witness ==
    /\ op_pc = "failed" /\ PreconditionViolated
    /\ given = <<>> /\ vm.input_file /\ vm.generation
    /\ vm.validation_level \in LevelNames
    /\ fs[InputFile] # Absent

\* a file of the output sstable's component set was on disk before the run
ComponentExisted == \E c \in ComponentTypes : fs_before[Filename(c)] # Absent

\* C22: when any file of the output sstable's component set exists, not
\* only the Data component's, the write never gets to consume its input and
\* never succeeds, and in no run is the content of a file that existed
\* before changed.
C22_AnyExistingComponentFailsTheWrite ==
    /\ ComponentExisted => op_pc \notin {"consume", "done"}
    /\ \A f \in Files : fs_before[f] # Absent => fs[f] = fs_before[f]

\* C22 (witness): the Data component's file did not exist, another
\* component's did: the write got past its own test, opened the input file
\* and failed in the writer
C22_Witness ==
    /\ op_pc = "failed"
    /\ fs_before[Filename("Data")] = Absent /\ ComponentExisted
    /\ opened_files = {InputFile}
    /\ fs = fs_before

\* the files of the output sstable that are on disk
OutputFiles == {c \in ComponentTypes : fs[Filename(c)] # Absent}

Strictest == valid_validation_levels[Len(valid_validation_levels)]

\* C24: the levels are cumulative in the order partition_region, token,
\* partition_key, clustering_key: of the same stream, the validator of a
\* level has counted every violation that belongs to that level or to a
\* lower one, and none that belongs to a higher one.
C24_LevelsAreCumulative ==
    op_pc = "validating" =>
       \A i, j \in 1..Len(valid_validation_levels) :
          LET at == valid_validation_levels[i]
              of == valid_validation_levels[j]
          IN  errors[at][of] = IF j <= i THEN errors[Strictest][of] ELSE 0

\* C24 (witness): two partitions with decreasing tokens: one error at the
\* level token, none at the level partition_region
C24_Witness ==
    /\ op_pc = "validating" /\ fed = 3
    /\ validator.prev = "partition_start" /\ validator.token = 1
    /\ errors[Strictest]["token"] = 1
    /\ ErrorCount(errors, "token") = 1
    /\ ErrorCount(errors, "partition_region") = 0

\* C25: for the validator at the level clustering_key, a partition_end
\* reached while the last range tombstone change of the partition carried a
\* set tombstone counts as exactly one error; a partition_end after a last
\* change with the empty tombstone, or in a partition without a range
\* tombstone change, counts as no error of that kind.
C25_UnclosedRangeTombstoneIsOneError ==
    [][(fed' = fed + 1 /\ validator'.prev = "partition_end") =>
          IF validator.open_tombstone
          THEN ErrorCount(errors', Strictest) = ErrorCount(errors, Strictest) + 1
          ELSE errors'[Strictest][Strictest] = errors[Strictest][Strictest]]_vars

\* C25 (witness): a partition whose only range tombstone change carries a
\* set tombstone has ended: one error is counted
C25_Witness ==
    /\ op_pc = "validating" /\ fed = 3 /\ validator.prev = "partition_end"
    /\ validator.last_rtc_position > 0 /\ validator.last_clustering = 0
    /\ ErrorCount(errors, Strictest) = 1
    /\ errors[Strictest][Strictest] = 1

\* C26: the validation level of the standalone validate operation can be
\* configured: a command line of validate that names one of the four levels
\* is accepted.
C26_ValidateLevelConfigurable ==
    vm.validation_level \in LevelNames => op_error # "unrecognised option"

(***************************************************************************)
(* The claims about the combined reader.                                   *)
(***************************************************************************)
\* how often the fragment fr occurs in the stream s
RECURSIVE Occurrences(_, _)
Occurrences(s, fr) ==
    IF s = <<>> THEN 0
    ELSE (IF Head(s) = fr THEN 1 ELSE 0) + Occurrences(Tail(s), fr)

\* the partition keys of the stream s, in its order
RECURSIVE KeysOf(_)
KeysOf(s) ==
    IF s = <<>> THEN <<>>
    ELSE (IF Head(s).kind = "partition_start" THEN <<Head(s).key>> ELSE <<>>)
         \o KeysOf(Tail(s))

\* the readers in the opposite order
Reversed(rs) == [n \in 1..Len(rs) |-> rs[Len(rs) + 1 - n]]

\* C27: the combined stream never holds a partition_start twice nor a
\* partition out of order, and when the readers are exhausted it holds
\* exactly one partition_start and one partition_end for each partition key
\* that occurs in any input, in strictly increasing order of the keys, and
\* is the same stream whichever way round the readers were supplied.
C27_OnePartitionPerKeyInOrder ==
    LET keys == KeysOf(combined)
    IN  /\ \A i, j \in 1..Len(keys) : i < j => keys[i] < keys[j]
        /\ Occurrences(combined, PE) <= Len(keys)
        /\ op_pc = "done" =>
              /\ \A k \in 1..MaxKey :
                    Occurrences(combined, PS(k)) =
                       IF \E n \in 1..Len(given) : Occurrences(given[n], PS(k)) > 0
                       THEN 1 ELSE 0
              /\ Occurrences(combined, PE) = Len(keys)
              /\ combined = Combine(given)
              /\ combined = Combine(Reversed(given))

\* C27 (witness): two readers hold the same partition and one of them
\* another one; the combined stream is complete
C27_Witness ==
    /\ op_pc = "done" /\ Len(given) = 2
    /\ Occurrences(given[1], PS(2)) = 1 /\ Occurrences(given[2], PS(2)) = 1
    /\ Occurrences(given[1], PS(1)) = 0 /\ Occurrences(given[2], PS(1)) = 1
    /\ given[1] # given[2]
    /\ Len(KeysOf(combined)) = 2

(***************************************************************************)
(* The claims about decompress and writetime-histogram.                    *)
(***************************************************************************)
\* C28: a file <input>.decompressed that exists when decompress starts is
\* never opened for writing by the operation, and its content stays as it
\* was.
C28_ExistingDecompressedFileIsKept ==
    op_pc # "off" =>
       \A f \in DOMAIN fs_before :
          fs_before[f].exists => (f \notin opened_files /\ fs[f] = fs_before[f])

\* C29: when the operation has failed after it had created the output file
\* of an sstable, that file is not on disk.
C29_FailedDecompressLeavesNoFile ==
    (op_pc = "failed" /\ ostream # <<>> /\ ~fs_before[ostream.file].exists)
        => ~fs[ostream.file].exists

\* C30: after a run of writetime-histogram that succeeded, histogram.json
\* holds exactly what is written for the histogram collected in the run,
\* whatever a histogram.json that was there before held.
C30_HistogramFileIsThisRunsHistogram ==
    (op_pc = "done" /\ fs_before[HistogramFile].exists)
        => fs[HistogramFile] = File(Serialised(histogram))

(***************************************************************************)
(* The claims about the parser's bookkeeping, its task and the consumers.  *)
(***************************************************************************)

\* the sum of all bucket counts of a histogram
HistogramTotal(h) ==
    LET RECURSIVE sum(_)
        sum(bs) == IF bs = {} THEN 0
                   ELSE LET b == CHOOSE b \in bs : TRUE IN h[b] + sum(bs \ {b})
    IN  sum(DOMAIN h)

\* the write timestamps present in a fragment: empty tombstones carry none
Present(mf) ==
    LET cells(row) == Cardinality({col \in DOMAIN row : row[col].state # "absent"})
        one(b) == IF b THEN 1 ELSE 0
    IN  CASE mf.kind = "partition_start" -> one(mf.tomb # NoTomb)
          [] mf.kind = "static_row" -> cells(mf.cells)
          [] mf.kind = "clustering_row" ->
                one(mf.marker.kind # "missing") + one(mf.rtomb.regular # NoTomb)
                + one(mf.rtomb.shadowable # mf.rtomb.regular) + cells(mf.cells)
          [] mf.kind = "range_tombstone_change" -> one(mf.tomb # NoTomb)
          [] OTHER -> 0

\* C31: the histogram consumer collects exactly the write timestamps present
\* in the stream: consuming a fragment raises the sum of all bucket counts by
\* the number of the fragment's non-empty tombstones, markers and cells, and
\* an empty tombstone (such as that of a closing range tombstone change) adds
\* nothing.
C31_CollectsExactlyTheTimestampsPresent ==
    [][\A mf \in HistogramFragments :
          HistogramConsume(mf) =>
              HistogramTotal(histogram') = HistogramTotal(histogram) + Present(mf)]_vars

\* the clustering key given by the member key of the object that the next
\* EndObject closes
OwnClusteringKey == from_hex(doc[LastOwn(doc, pos, "key") + 3].s)

\* C32: closing a clustering-row object that has a member key emits, unless
\* it is rejected, one clustering_row with the key of that member; closing a
\* clustering-row object without a member key is an error wherever the object
\* stands, also after a clustering row that had a key.
C32_ClusteringRowCarriesItsOwnKey ==
    [][Closing("in_clustering_row")
       => IF "key" \in OwnKeys(doc, pos)
          THEN parse_result' # "error"
               => /\ Len(parsed') = Len(parsed) + 1
                  /\ parsed'[Len(parsed')].kind = "clustering_row"
                  /\ parsed'[Len(parsed')].ckey = Some(OwnClusteringKey)
          ELSE Rejected]_vars

\* the ttl and the expiry that the object closed by the next EndObject gives
\* in its own members
OwnTtl == TtlRead(doc[LastOwn(doc, pos, "ttl") + 1].s)
OwnExpiry == timestamp_from_string(doc[LastOwn(doc, pos, "expiry") + 1].s) \div 1000
OwnTtlAndExpiry == "ttl" \in OwnKeys(doc, pos) /\ "expiry" \in OwnKeys(doc, pos)
NeitherTtlNorExpiry == "ttl" \notin OwnKeys(doc, pos) /\ "expiry" \notin OwnKeys(doc, pos)

\* C33: a cell or row marker whose object is accepted gets the ttl and expiry
\* of its own object: a live cell or a marker with neither member is applied
\* without TTL, whatever was parsed before it, and one with both members gets
\* the values of these members.
C33_TtlAndExpiryAreThoseOfTheOwnObject ==
    [][/\ (/\ Closing("in_column")
           /\ OwnTtlAndExpiry \/ NeitherTtlNorExpiry
           /\ parse_result' # "error")
          => LET c == Val(handler.column) IN
             handler'.row =
                 Some(RowApply(Val(handler.row), c.def,
                      IF ~Val(c.is_live) THEN DeadCell(Val(c.timestamp), Val(c.deletion_time))
                      ELSE IF OwnTtlAndExpiry
                      THEN ExpiringCell(Val(c.timestamp), Val(c.value), OwnExpiry, OwnTtl)
                      ELSE LiveCell(Val(c.timestamp), Val(c.value))))
       /\ (/\ Closing("in_marker")
           /\ OwnTtlAndExpiry \/ NeitherTtlNorExpiry
           /\ parse_result' # "error")
          => handler'.row_marker =
                 IF OwnTtlAndExpiry
                 THEN Some(Marker("expiring", Val(handler.row_marker).ts, OwnTtl, OwnExpiry))
                 ELSE handler.row_marker]_vars

\* the partition objects of a document: the events that open them, in
\* document order
PartitionObjectsOf(d) ==
    {i \in 1..Len(d) : d[i].type = "StartObject" /\ OpenOf(d, i - 1, 0) = 1
                       /\ d[1].type = "StartArray"}
\* the key that the member key of the partition object opened at i gives,
\* if the object has that member
KeyOfPartitionObject(d, i) ==
    LET ks == {j \in 1..Len(d) : d[j].type = "Key" /\ d[j].k = "key" /\ OpenOf(d, j - 1, 0) = i}
    IN  IF ks = {} THEN None
        ELSE LET j == CHOOSE j \in ks : \A l \in ks : l <= j
                 r == CHOOSE r \in (j + 1)..Len(d) :
                         /\ d[r].type = "Key" /\ d[r].k = "raw"
                         /\ \A l \in (j + 1)..(r - 1) : ~(d[l].type = "Key" /\ d[l].k = "raw")
             IN  Some(from_hex(d[r + 1].s))
RECURSIVE InOrder(_)
InOrder(set) ==
    IF set = {} THEN <<>>
    ELSE LET least == CHOOSE i \in set : \A j \in set : i <= j
         IN  <<least>> \o InOrder(set \ {least})
PartitionKeysOfDocument(d) ==
    LET os == InOrder(PartitionObjectsOf(d))
    IN  [n \in 1..Len(os) |-> KeyOfPartitionObject(d, os[n])]
\* the fragments form groups: a partition_start, fragments that neither start
\* nor end a partition, a partition_end
Grouped(fr) ==
    /\ \A i \in 1..Len(fr) :
          IF fr[i].kind = "partition_start"
          THEN i = 1 \/ fr[i - 1].kind = "partition_end"
          ELSE i > 1 /\ fr[i - 1].kind # "partition_end"
    /\ fr # <<>> => fr[Len(fr)].kind = "partition_end"

\* C34: for a document that the parser accepts, the emitted fragments (before
\* the end of stream) are a concatenation of groups, one per partition object
\* in document order, each starting with exactly one partition_start that
\* carries the key of that partition object and ending with exactly one
\* partition_end.
C34_OneGroupPerPartitionObject ==
    (mode = "text" /\ parse_result = "done") =>
        LET fr == SelectSeq(parsed, LAMBDA f : f.kind # "eos")
            starts == SelectSeq(fr, LAMBDA f : f.kind = "partition_start")
            keys == PartitionKeysOfDocument(doc)
        IN  /\ Grouped(fr)
            /\ Len(starts) = Len(keys)
            /\ \A n \in 1..Len(starts) : Some(starts[n].pkey) = keys[n]

\* C35: a read of the next fragment never waits forever. When the parser's
\* thread has ended, on whatever input (also one on which the lexer fails
\* before the top-level array is closed), and the queue holds nothing, the
\* queue was aborted with an error or the reader has received the end of the
\* stream.
C35_PendingReadGetsEndOfStreamOrError ==
    (impl_pc = "alive" /\ ThreadEnded /\ queue = <<>>)
        => \/ queue_ex
           \/ received # <<>> /\ received[Len(received)] = EndOfStream

\* C36: a destructor that waits for the thread is not left waiting: while
\* ~impl() joins the thread, the thread has ended or can take its next step,
\* also when the owner has stopped taking fragments from the queue.
C36_DestructionCompletes ==
    impl_pc = "joining" => (ThreadEnded \/ ENABLED ThreadStep)

\* C37: in every reachable state of the parser the state stack has start as
\* its bottom entry and nowhere else (no pop reaches it), every lookup top(i)
\* that the state on top leads to is within the stack, and the retire action
\* was never called for a state it has no case for, nor for in_tombstone in a
\* context it does not know.
C37_StateStackIsWellFormed ==
    LET stack == handler.state_stack IN
    /\ stack # <<>>
    /\ stack[Len(stack)] = "start"
    /\ \A i \in 1..(Len(stack) - 1) : stack[i] # "start"
    /\ DeepestLookup(handler) < Len(stack)
    /\ handler.retire_error = ""

\* C37: the string of a partition key's raw member was retired under in_key,
\* which looks at top(1) and top(3), and the stack is back at in_key.
C37_Witness ==
    /\ mode = "free" /\ parse_result = "running"
    /\ Top(handler, 0) = "in_key" /\ Top(handler, 2) = "in_partition"
    /\ IsSome(handler.pkey)

\* C38: the consumer calls are bracketed, whatever the consumer answers.
\* on_start_of_stream is the first call and made once; every on_new_sstable
\* follows on_start_of_stream or an on_end_of_sstable; every on_end_of_sstable
\* closes the on_new_sstable before it (the same sstable); the consume calls
\* of an sstable lie between its on_new_sstable and its on_end_of_sstable;
\* on_end_of_stream follows an on_end_of_sstable, is the last call, and has
\* been made when the run is over.
C38_ConsumerCallsAreBracketed ==
    /\ \A i \in 1..Len(top) :
          /\ (top[i].op = "on_start_of_stream") <=> (i = 1)
          /\ top[i].op = "on_new_sstable"
             => top[i - 1].op \in {"on_start_of_stream", "on_end_of_sstable"}
          /\ top[i].op = "on_end_of_sstable"
             => (top[i - 1].op = "on_new_sstable" /\ top[i - 1].key = top[i].key)
          /\ top[i].op = "on_end_of_stream"
             => (i = Len(top) /\ top[i - 1].op = "on_end_of_sstable")
    /\ \A j \in 1..Len(trace) :
          /\ (trace[j].op = "on_new_sstable") <=> (j = 1)
          /\ trace[j].op = "on_end_of_sstable" => j = Len(trace)
    /\ trace # <<>> =>
          LET last == CHOOSE i \in 1..Len(top) :
                         /\ top[i].op \in {"on_new_sstable", "on_end_of_sstable"}
                         /\ \A l \in (i + 1)..Len(top) : top[l].op = "on_end_of_stream"
          IN  top[last].op = (IF SstableEnded THEN "on_end_of_sstable" ELSE "on_new_sstable")
    /\ pc = "done" => (top # <<>> /\ top[Len(top)].op = "on_end_of_stream")

\* C38: a run over two sstables is over; the first on_new_sstable answered
\* stop, and in the second sstable a consume call answered stop.
C38_Witness ==
    /\ pc = "done" /\ ~merge
    /\ Len(top) = 6
    /\ top[2].ans = "stop"
    /\ top[4].ans = "continue"
    /\ \E j \in 1..Len(trace) : trace[j].op = "consume" /\ trace[j].ans = "stop"

\* the whitespace-separated tokens of a text, as the places where they stand
TokenSpans(text) ==
    {sp \in (1..Len(text)) \X (1..Len(text)) :
        /\ sp[1] <= sp[2]
        /\ \A i \in sp[1]..sp[2] : ~isspace(text[i])
        /\ sp[1] = 1 \/ isspace(text[sp[1] - 1])
        /\ sp[2] = Len(text) \/ isspace(text[sp[2] + 1])}
\* what the stream has handed over so far
ReadSoFar == SubSeq(pfile_content, 1, Len(pfile_content) - Len(pfile))

\* C39: the partition keys read from the partitions file are those of the
\* whitespace-separated tokens of its content, however the stream splits the
\* content into buffers. While the file is read, the keys are those of the
\* tokens that have ended and the key in progress is the token at the end of
\* what was read; when get_partitions has returned, the keys are those of all
\* tokens of the file; it throws only on a token that is not a hex string.
C39_KeysAreTheTokensOfTheFile ==
    /\ pc = "get_partitions" =>
          /\ \A sp \in TokenSpans(ReadSoFar) :
                sp[2] < Len(ReadSoFar) => ~DkFromHexThrows(SubSeq(ReadSoFar, sp[1], sp[2]))
          /\ partitions = {dk_from_hex(SubSeq(ReadSoFar, sp[1], sp[2])) :
                              sp \in {t \in TokenSpans(ReadSoFar) : t[2] < Len(ReadSoFar)}}
          /\ \A sp \in TokenSpans(ReadSoFar) :
                sp[2] = Len(ReadSoFar) => pk_buf = SubSeq(ReadSoFar, sp[1], sp[2])
          /\ (ReadSoFar = <<>> \/ isspace(ReadSoFar[Len(ReadSoFar)])) => pk_buf = <<>>
    /\ pc = "got_partitions" =>
          /\ \A sp \in TokenSpans(pfile_content) :
                ~DkFromHexThrows(SubSeq(pfile_content, sp[1], sp[2]))
          /\ partitions = {dk_from_hex(SubSeq(pfile_content, sp[1], sp[2])) :
                              sp \in TokenSpans(pfile_content)}
    /\ pc = "thrown" =>
          \E sp \in TokenSpans(pfile_content) :
              DkFromHexThrows(SubSeq(pfile_content, sp[1], sp[2]))

\* C39: a buffer has ended in the middle of the second key of the file; the
\* next buffer starts with the rest of the key, which no newline follows.
C39_Witness ==
    /\ pc = "get_partitions"
    /\ partitions # {} /\ pk_buf # <<>> /\ pfile # <<>>
    /\ \A i \in 1..Len(pfile) : ~isspace(pfile[i])

\* C40: on a reader whose next_partition() works, the run with no_skips
\* (drain to the next partition_end) and the run with the native skip make
\* the same consumer calls for the same stream, filter and answers. The
\* driver is deterministic and reads no_skips at the skip only, so this holds
\* exactly if at every skip, after a rejected partition_start as well as
\* after a synthetic partition_end, draining and next_partition() leave the
\* reader with the same fragments.
C40_DrainAndNativeSkipAlike ==
    [][(native_skip /\ Skipping)
       => Drain(SkippedReader) = NextPartition(SkippedReader)]_vars

====
